---- MODULE Spec2Model ----
(***************************************************************************)
(* A model of the Fernet token scheme of cryptography/fernet.py: the       *)
(* single-key engine (class Fernet) and the key ring (class MultiFernet).  *)
(*                                                                         *)
(* Bytes are the integers 0..255 and byte strings are sequences of them;   *)
(* tokens and keys at the API boundary are base64url text, sequences of    *)
(* character codes.  Python integers (times, ttls) are unbounded, so they  *)
(* are kept as NumLen base-256 digits, most significant first; None is the *)
(* empty sequence.  The primitives the code calls but does not implement   *)
(* (AES-CBC, HMAC-SHA256, PKCS7) are idealised stand-ins of the same shape.*)
(***************************************************************************)
EXTENDS Integers, Sequences, FiniteSets, TLC

VARIABLES
    engines,   \* the Fernet objects built so far, by the name of their key
    fernets,   \* MultiFernet._fernets: the key ring's engines, newest first
    token,     \* the token the caller holds (base64url text), <<>> before any
    origin,    \* how the token was issued: engine, payload, time, IV
    flips,     \* how many of the token's bits were flipped since it was issued
    result,    \* the last call with its arguments and what it returned or raised
    lists,     \* the list object the caller built a ring from, and which list
               \* object MultiFernet._fernets is
    threads,   \* the calls under way in each thread: where they stand, their
               \* arguments and their local variables
    hmacs      \* the HMAC contexts (h) of the calls under way

vars == <<engines, fernets, token, origin, flips, result, lists, threads, hmacs>>

\* ------------------------------------------------------------------ bounds

\* Base-256 digits of a modelled Python integer (values below 256^NumLen).
NumLen == 9

\* Largest number of engines in a key ring.
MaxRing == 2

\* ------------------------------------------------------- program constants

MAX_CLOCK_SKEW == 60

\* algorithms.AES.block_size // 8
BlockSize == 16

\* struct format ">Q"
TsLen == 8

\* digest size of hashes.SHA256
TagLen == 32

\* the 256-bit master key
KeyLen == 32

None == <<>>

\* --------------------------------------------------------- byte utilities

Byte == 0..255

\* Python's s[a:b] for 0 <= a, 0 <= b (0-based, end exclusive, clamped).
Slice(s, a, b) ==
    LET hi == IF b < Len(s) THEN b ELSE Len(s)
    IN  IF a >= hi THEN <<>> ELSE SubSeq(s, a + 1, hi)

\* Python's s[:-n] and s[-n:] for n > 0.
DropLast(s, n) == IF Len(s) <= n THEN <<>> ELSE SubSeq(s, 1, Len(s) - n)

TakeLast(s, n) == IF Len(s) <= n THEN s ELSE SubSeq(s, Len(s) - n + 1, Len(s))

Repeat(b, n) == [i \in 1..n |-> b]

RECURSIVE BitXor(_, _)
BitXor(a, b) ==
    IF a = 0 THEN b
    ELSE IF b = 0 THEN a
    ELSE ((a + b) % 2) + 2 * BitXor(a \div 2, b \div 2)

XorBytes(x, y) == [i \in 1..Len(x) |-> BitXor(x[i], y[i])]

\* ------------------------------------------------------- Python integers

\* The digits of a small n (n < 2^31); larger values are written as digits.
Num(n) ==
    [i \in 1..NumLen |->
        IF NumLen - i > 3 THEN 0 ELSE (n \div (256 ^ (NumLen - i))) % 256]

NumFromBytes(bs) == Repeat(0, NumLen - Len(bs)) \o bs

MaxU64 == NumFromBytes(Repeat(255, TsLen))

RECURSIVE Carry(_, _, _)
\* The carry into digit i (1-based from the left) of a + b.
Carry(a, b, i) ==
    IF i = NumLen THEN 0
    ELSE (a[i + 1] + b[i + 1] + Carry(a, b, i + 1)) \div 256

NumAdd(a, b) == [i \in 1..NumLen |-> (a[i] + b[i] + Carry(a, b, i)) % 256]

RECURSIVE NumLessFrom(_, _, _)
NumLessFrom(a, b, i) ==
    IF i > NumLen THEN FALSE
    ELSE IF a[i] # b[i] THEN a[i] < b[i]
    ELSE NumLessFrom(a, b, i + 1)

NumLess(a, b) == NumLessFrom(a, b, 1)

\* A slip: the time is packed modulo 2^64.
pack_Q_wrapping(n) ==
    [ok |-> TRUE, err |-> "", val |-> SubSeq(n, NumLen - TsLen + 1, NumLen)]

\* struct.pack(">Q", n): the 8 low digits; struct.error outside [0, 2^64-1].
pack_Q(n) ==
    IF \E i \in 1..(NumLen - TsLen) : n[i] # 0
    THEN [ok |-> FALSE, err |-> "struct.error", val |-> <<>>]
    ELSE [ok |-> TRUE, err |-> "", val |-> SubSeq(n, NumLen - TsLen + 1, NumLen)]

\* struct.unpack(">Q", bs): struct.error unless bs holds exactly 8 bytes.
unpack_Q(bs) ==
    IF Len(bs) # TsLen
    THEN [ok |-> FALSE, err |-> "struct.error", val |-> <<>>]
    ELSE [ok |-> TRUE, err |-> "", val |-> NumFromBytes(bs)]

\* ------------------------------------------------------------- base64url

\* b2a_base64's alphabet after urlsafe_b64encode's translation "+/" -> "-_".
B64Char(v) ==
    IF v < 26 THEN 65 + v
    ELSE IF v < 52 THEN 97 + (v - 26)
    ELSE IF v < 62 THEN 48 + (v - 52)
    ELSE IF v = 62 THEN 45
    ELSE 95

\* a2b_base64's table after urlsafe_b64decode's translation "-_" -> "+/":
\* both "+" and "-" give 62, both "/" and "_" give 63; 64 marks a character
\* outside the alphabet.
B64Val(c) ==
    IF c >= 65 /\ c <= 90 THEN c - 65
    ELSE IF c >= 97 /\ c <= 122 THEN c - 97 + 26
    ELSE IF c >= 48 /\ c <= 57 THEN c - 48 + 52
    ELSE IF c = 43 \/ c = 45 THEN 62
    ELSE IF c = 47 \/ c = 95 THEN 63
    ELSE 64

B64Pad == 61

urlsafe_b64encode(bs) ==
    LET n == Len(bs)
        full == n \div 3
        rem == n % 3
        B(i) == IF i <= n THEN bs[i] ELSE 0
        Quad(g) ==
            LET b0 == B(3 * g + 1)
                b1 == B(3 * g + 2)
                b2 == B(3 * g + 3)
            IN  << B64Char(b0 \div 4),
                   B64Char((b0 % 4) * 16 + (b1 \div 16)),
                   B64Char((b1 % 16) * 4 + (b2 \div 64)),
                   B64Char(b2 % 64) >>
        body == [j \in 1..(4 * full) |-> Quad((j - 1) \div 4)[((j - 1) % 4) + 1]]
        tail == IF rem = 0 THEN <<>>
                ELSE IF rem = 1
                     THEN <<Quad(full)[1], Quad(full)[2], B64Pad, B64Pad>>
                     ELSE <<Quad(full)[1], Quad(full)[2], Quad(full)[3], B64Pad>>
    IN  body \o tail

IsB64Char(c) == B64Val(c) < 64

\* binascii.a2b_base64 in its default, non-strict mode, as one pass would
\* leave it: characters outside the alphabet are skipped; a "=" met with two
\* or three characters of a quad read counts as padding, and decoding stops
\* at the "=" that completes the quad (quad_pos + pads >= 4), ignoring what
\* follows; the unused low bits of the last character are dropped; an input
\* that ends inside a quad is binascii.Error.

\* The least member of a set of positions, 0 if there is none.
FirstOf(S) == IF S = {} THEN 0 ELSE CHOOSE i \in S : \A j \in S : i <= j

\* The position of the "=" at which a2b_base64 stops reading s, 0 if it
\* reads s to its end.
a2b_stop(s) ==
    LET Chars(a, b) == IF a > b THEN <<>> ELSE SelectSeq(SubSeq(s, a, b), IsB64Char)
        pad_at == {i \in 1..Len(s) : s[i] = B64Pad}
        quad_pos(i) == Len(Chars(1, i - 1)) % 4
        pads(i) == Cardinality({j \in pad_at : j <= i /\ Len(Chars(j, i)) = 0})
    IN  FirstOf({i \in pad_at : quad_pos(i) >= 2 /\ quad_pos(i) + pads(i) >= 4})

\* The bytes of the alphabet characters cs that a2b_base64 read; padded
\* tells that it stopped at a completed padding.
a2b_quads(cs, padded) ==
    LET V(k) == B64Val(cs[k])
        rem == Len(cs) % 4
        nbytes == 3 * (Len(cs) \div 4) + (IF rem = 0 THEN 0 ELSE rem - 1)
        ByteAt(j) ==
            LET g == 4 * ((j - 1) \div 3)
                r == (j - 1) % 3
            IN  IF r = 0 THEN V(g + 1) * 4 + (V(g + 2) \div 16)
                ELSE IF r = 1 THEN (V(g + 2) % 16) * 16 + (V(g + 3) \div 4)
                ELSE (V(g + 3) % 4) * 64 + V(g + 4)
    IN  IF ~padded /\ rem # 0
        THEN [ok |-> FALSE, err |-> "binascii.Error", val |-> <<>>]
        ELSE [ok |-> TRUE, err |-> "", val |-> [j \in 1..nbytes |-> ByteAt(j)]]

a2b_upto(s, stop) ==
    a2b_quads(SelectSeq(SubSeq(s, 1, IF stop = 0 THEN Len(s) ELSE stop - 1), IsB64Char),
              stop # 0)

a2b_base64(s) == a2b_upto(s, a2b_stop(s))

\* base64.urlsafe_b64decode
urlsafe_b64decode(s) == a2b_base64(s)

\* ------------------------------------------------ the primitive provider
\* Stand-ins for the primitives fernet.py imports and only composes.

\* padding.PKCS7(128).padder(): always adds 1..16 bytes, each the pad length.
PKCS7_pad(data) ==
    LET n == BlockSize - (Len(data) % BlockSize)
    IN  data \o Repeat(n, n)

\* padding.PKCS7(128).unpadder(): ValueError unless the input is a non-empty
\* whole number of blocks ending in n bytes of value n, 1 <= n <= 16.
PKCS7_unpad(data) ==
    LET len == Len(data)
        n == IF len = 0 THEN 0 ELSE data[len]
        valid == /\ len > 0
                 /\ len % BlockSize = 0
                 /\ n >= 1
                 /\ n <= BlockSize
                 /\ \A i \in (len - n + 1)..len : data[i] = n
    IN  IF valid
        THEN [ok |-> TRUE, err |-> "", val |-> SubSeq(data, 1, len - n)]
        ELSE [ok |-> FALSE, err |-> "ValueError", val |-> <<>>]

\* The block cipher: a keyed permutation of 16-byte blocks and its inverse.
AES_encrypt_block(key, block) ==
    [i \in 1..BlockSize |-> (block[i] + key[i]) % 256]

AES_decrypt_block(key, block) ==
    [i \in 1..BlockSize |-> (block[i] + 256 - key[i]) % 256]

RECURSIVE CBC_chain_encrypt(_, _, _)
CBC_chain_encrypt(key, prev, data) ==
    IF Len(data) = 0 THEN <<>>
    ELSE LET c == AES_encrypt_block(key, XorBytes(SubSeq(data, 1, BlockSize), prev))
         IN  c \o CBC_chain_encrypt(key, c, SubSeq(data, BlockSize + 1, Len(data)))

\* Cipher(AES(key), CBC(iv)).encryptor(): update + finalize on whole blocks.
CBC_encrypt(key, iv, data) == CBC_chain_encrypt(key, iv, data)

RECURSIVE CBC_chain_decrypt(_, _, _)
CBC_chain_decrypt(key, prev, data) ==
    IF Len(data) = 0 THEN <<>>
    ELSE LET c == SubSeq(data, 1, BlockSize)
         IN  XorBytes(AES_decrypt_block(key, c), prev)
             \o CBC_chain_decrypt(key, c, SubSeq(data, BlockSize + 1, Len(data)))

\* Cipher(AES(key), CBC(iv)).decryptor(): the constructor rejects an IV that
\* is not one block long, finalize rejects data that is not whole blocks
\* (both ValueError).
CBC_decrypt(key, iv, data) ==
    IF Len(data) % BlockSize # 0
    THEN [ok |-> FALSE, err |-> "ValueError", val |-> <<>>]
    ELSE [ok |-> TRUE, err |-> "", val |-> CBC_chain_decrypt(key, iv, data)]

RECURSIVE Sum1(_, _, _)
\* The sum of data[lo..hi], each byte counted one higher.
Sum1(data, lo, hi) ==
    IF lo > hi THEN 0
    ELSE IF lo = hi THEN data[lo] + 1
    ELSE LET mid == (lo + hi) \div 2
         IN  Sum1(data, lo, mid) + Sum1(data, mid + 1, hi)

RECURSIVE Sum2(_, _, _)
\* The same sum with every byte weighted by its position.
Sum2(data, lo, hi) ==
    IF lo > hi THEN 0
    ELSE IF lo = hi THEN lo * (data[lo] + 1)
    ELSE LET mid == (lo + hi) \div 2
         IN  Sum2(data, lo, mid) + Sum2(data, mid + 1, hi)

\* HMAC(key, SHA256).finalize(): a 32-byte tag, a function of key and data.
\* The tag spells out the length and two checksums of the data, so it
\* changes whenever up to two bytes of the data change, and every byte of
\* it is offset by a key byte, so it changes with every key byte.
HMAC_SHA256(key, data) ==
    LET h1 == Sum1(data, 1, Len(data))
        h2 == Sum2(data, 1, Len(data))
        G(i) == IF i = 1 THEN h1 % 256
                ELSE IF i = 2 THEN h1 \div 256
                ELSE IF i = 3 THEN h2 % 256
                ELSE IF i = 4 THEN (h2 \div 256) % 256
                ELSE IF i = 5 THEN h2 \div 65536
                ELSE IF i = 6 THEN Len(data) % 256
                ELSE (h1 * i + h2 + 7 * i * i) % 251
    IN  [i \in 1..TagLen |-> (G(i) + key[((i - 1) % Len(key)) + 1]) % 256]

\* ------------------------------------------------------------ class Fernet

InvalidToken == [ok |-> FALSE, err |-> "InvalidToken", val |-> <<>>]

Ok(v) == [ok |-> TRUE, err |-> "", val |-> v]

Raise(e) == [ok |-> FALSE, err |-> e, val |-> <<>>]

\* A slip: the first half of the key encrypts and the second half signs.
key_split_swapped(k) ==
    IF ~k.ok THEN Raise(k.err)
    ELSE IF Len(k.val) # KeyLen THEN Raise("ValueError")
    ELSE Ok([signing_key |-> SubSeq(k.val, 17, KeyLen),
             encryption_key |-> SubSeq(k.val, 1, 16)])

\* A slip: only a key that is too short is refused.
key_split_short_only(k) ==
    IF ~k.ok THEN Raise(k.err)
    ELSE IF Len(k.val) < KeyLen THEN Raise("ValueError")
    ELSE Ok([signing_key |-> SubSeq(k.val, 1, 16),
             encryption_key |-> SubSeq(k.val, 17, KeyLen)])

\* The second half of Fernet.__init__: the decoded key k is split in two.
key_split(k) ==
    IF ~k.ok THEN Raise(k.err)
    ELSE IF Len(k.val) # KeyLen THEN Raise("ValueError")
    ELSE Ok([signing_key |-> SubSeq(k.val, 1, 16),
             encryption_key |-> SubSeq(k.val, 17, KeyLen)])

\* Fernet.__init__: the key is base64url text of exactly 32 bytes.
Fernet_init(key) == key_split(urlsafe_b64decode(key))

\* Fernet.generate_key; random is what os.urandom(32) returned.
generate_key(random) == urlsafe_b64encode(random)

\* A slip: the tag is computed over the IV and the ciphertext alone.
encrypt_from_parts_tag_tail(self, data, current_time, iv) ==
    LET padded_data == PKCS7_pad(data)
        ciphertext == CBC_encrypt(self.encryption_key, iv, padded_data)
        ts == pack_Q(current_time)
        basic_parts == <<128>> \o ts.val \o iv \o ciphertext
        hmac == HMAC_SHA256(self.signing_key, iv \o ciphertext)
    IN  IF ~ts.ok THEN Raise(ts.err)
        ELSE Ok(urlsafe_b64encode(basic_parts \o hmac))

\* Fernet._encrypt_from_parts
encrypt_from_parts(self, data, current_time, iv) ==
    LET padded_data == PKCS7_pad(data)
        ciphertext == CBC_encrypt(self.encryption_key, iv, padded_data)
        ts == pack_Q(current_time)
        basic_parts == <<128>> \o ts.val \o iv \o ciphertext
        hmac == HMAC_SHA256(self.signing_key, basic_parts)
    IN  IF ~ts.ok THEN Raise(ts.err)
        ELSE Ok(urlsafe_b64encode(basic_parts \o hmac))

\* Fernet.encrypt_at_time; iv is what os.urandom(16) returned.
encrypt_at_time(self, data, current_time, iv) ==
    encrypt_from_parts(self, data, current_time, iv)

NoData == [ok |-> FALSE, err |-> "InvalidToken", timestamp |-> <<>>, data |-> <<>>]

\* A slip: struct.error is not caught.
token_data_struct_error(d) ==
    LET ts == unpack_Q(Slice(d.val, 1, 9))
    IN  IF ~d.ok THEN NoData
        ELSE IF Len(d.val) = 0 \/ d.val[1] # 128 THEN NoData
        ELSE IF ~ts.ok THEN [NoData EXCEPT !.err = ts.err]
        ELSE [ok |-> TRUE, err |-> "", timestamp |-> ts.val, data |-> d.val]

\* A slip: the version byte is not looked at.
token_data_any_version(d) ==
    LET ts == unpack_Q(Slice(d.val, 1, 9))
    IN  IF ~d.ok THEN NoData
        ELSE IF ~ts.ok THEN NoData
        ELSE [ok |-> TRUE, err |-> "", timestamp |-> ts.val, data |-> d.val]

\* The checks of Fernet._get_unverified_token_data on the decoded token d.
token_data(d) ==
    LET ts == unpack_Q(Slice(d.val, 1, 9))
    IN  IF ~d.ok THEN NoData
        ELSE IF Len(d.val) = 0 \/ d.val[1] # 128 THEN NoData
        ELSE IF ~ts.ok THEN NoData
        ELSE [ok |-> TRUE, err |-> "", timestamp |-> ts.val, data |-> d.val]

\* Fernet._get_unverified_token_data
get_unverified_token_data(tok) == token_data(urlsafe_b64decode(tok))

\* A slip: only the first half of the tag is compared.
verify_signature_half(self, data) ==
    SubSeq(HMAC_SHA256(self.signing_key, DropLast(data, TagLen)), 1, 16)
        = Slice(TakeLast(data, TagLen), 0, 16)

\* Fernet._verify_signature: TRUE when h.verify accepts data[-32:] as the
\* tag of data[:-32]; a tag of another length never verifies.
verify_signature(self, data) ==
    HMAC_SHA256(self.signing_key, DropLast(data, TagLen)) = TakeLast(data, TagLen)

NoTimeInfo == [present |-> FALSE, ttl |-> <<>>, current_time |-> <<>>]

TimeInfo(ttl, current_time) ==
    [present |-> TRUE, ttl |-> ttl, current_time |-> current_time]

\* A slip: a token is taken as expired already when timestamp + ttl is now.
time_checks_fail_at_expiry(timestamp, time_info) ==
    /\ time_info.present
    /\ \/ ~NumLess(time_info.current_time, NumAdd(timestamp, time_info.ttl))
       \/ NumLess(NumAdd(time_info.current_time, Num(MAX_CLOCK_SKEW)), timestamp)

\* A slip: the ttl is taken for the clock-skew tolerance.
time_checks_fail_skew_ttl(timestamp, time_info) ==
    /\ time_info.present
    /\ \/ NumLess(NumAdd(timestamp, time_info.ttl), time_info.current_time)
       \/ NumLess(NumAdd(time_info.current_time, time_info.ttl), timestamp)

\* A slip: timestamp + ttl is kept in 64 bits, as a C unsigned long long.
time_checks_fail_wrapping(timestamp, time_info) ==
    /\ time_info.present
    /\ \/ NumLess([i \in 1..NumLen |->
                       IF i <= NumLen - TsLen THEN 0
                       ELSE NumAdd(timestamp, time_info.ttl)[i]],
                  time_info.current_time)
       \/ NumLess(NumAdd(time_info.current_time, Num(MAX_CLOCK_SKEW)), timestamp)

\* The two time checks at the head of Fernet._decrypt_data.
time_checks_fail(timestamp, time_info) ==
    /\ time_info.present
    /\ \/ NumLess(NumAdd(timestamp, time_info.ttl), time_info.current_time)
       \/ NumLess(NumAdd(time_info.current_time, Num(MAX_CLOCK_SKEW)), timestamp)

\* A slip: the decrypted bytes are returned with their padding on.
decrypt_data_padded(self, data, timestamp, time_info) ==
    LET iv == Slice(data, 9, 25)
        ciphertext == Slice(DropLast(data, TagLen), 25, Len(data))
        plaintext_padded == CBC_decrypt(self.encryption_key, iv, ciphertext)
    IN  IF time_checks_fail(timestamp, time_info) THEN InvalidToken
        ELSE IF ~verify_signature(self, data) THEN InvalidToken
        ELSE IF ~plaintext_padded.ok THEN InvalidToken
        ELSE Ok(plaintext_padded.val)

\* A slip: a plaintext that is not a whole padded block is returned as it
\* is.
decrypt_data_lenient(self, data, timestamp, time_info) ==
    LET iv == Slice(data, 9, 25)
        ciphertext == Slice(DropLast(data, TagLen), 25, Len(data))
        plaintext_padded == CBC_decrypt(self.encryption_key, iv, ciphertext)
        unpadded == PKCS7_unpad(plaintext_padded.val)
    IN  IF time_checks_fail(timestamp, time_info) THEN InvalidToken
        ELSE IF ~verify_signature(self, data) THEN InvalidToken
        ELSE IF Len(iv) # BlockSize THEN Raise("ValueError")
        ELSE IF ~plaintext_padded.ok THEN InvalidToken
        ELSE IF ~unpadded.ok /\ Len(plaintext_padded.val) >= BlockSize THEN InvalidToken
        ELSE Ok(unpadded.val)

\* A slip: the ValueError of the unpadder is not caught.
decrypt_data_padding_error(self, data, timestamp, time_info) ==
    LET iv == Slice(data, 9, 25)
        ciphertext == Slice(DropLast(data, TagLen), 25, Len(data))
        plaintext_padded == CBC_decrypt(self.encryption_key, iv, ciphertext)
        unpadded == PKCS7_unpad(plaintext_padded.val)
    IN  IF time_checks_fail(timestamp, time_info) THEN InvalidToken
        ELSE IF ~verify_signature(self, data) THEN InvalidToken
        ELSE IF Len(iv) # BlockSize THEN Raise("ValueError")
        ELSE IF ~plaintext_padded.ok THEN InvalidToken
        ELSE IF ~unpadded.ok THEN Raise(unpadded.err)
        ELSE Ok(unpadded.val)

\* Fernet._decrypt_data
decrypt_data(self, data, timestamp, time_info) ==
    LET iv == Slice(data, 9, 25)
        ciphertext == Slice(DropLast(data, TagLen), 25, Len(data))
        plaintext_padded == CBC_decrypt(self.encryption_key, iv, ciphertext)
        unpadded == PKCS7_unpad(plaintext_padded.val)
    IN  IF time_checks_fail(timestamp, time_info) THEN InvalidToken
        ELSE IF ~verify_signature(self, data) THEN InvalidToken
        ELSE IF Len(iv) # BlockSize THEN Raise("ValueError")
        ELSE IF ~plaintext_padded.ok THEN InvalidToken
        ELSE IF ~unpadded.ok THEN InvalidToken
        ELSE Ok(unpadded.val)

\* The call of _decrypt_data that ends decrypt and decrypt_at_time, u being
\* what _get_unverified_token_data returned or raised.
decrypt_token_data(self, u, time_info) ==
    IF ~u.ok THEN Raise(u.err)
    ELSE decrypt_data(self, u.data, u.timestamp, time_info)

\* A slip: a missing ttl is taken as a ttl of 0.
decrypt_ttl_zero(self, tok, ttl, clock) ==
    decrypt_token_data(self, get_unverified_token_data(tok),
                       TimeInfo(IF ttl = None THEN Num(0) ELSE ttl, clock))

\* Fernet.decrypt; clock is what int(time.time()) returned.
decrypt(self, tok, ttl, clock) ==
    decrypt_token_data(self, get_unverified_token_data(tok),
                       IF ttl = None THEN NoTimeInfo ELSE TimeInfo(ttl, clock))

\* A slip: the token is parsed before the ttl is looked at.
decrypt_at_time_parse_first(self, tok, ttl, current_time) ==
    IF ~get_unverified_token_data(tok).ok THEN InvalidToken
    ELSE IF ttl = None THEN Raise("ValueError")
    ELSE decrypt_token_data(self, get_unverified_token_data(tok),
                            TimeInfo(ttl, current_time))

\* Fernet.decrypt_at_time
decrypt_at_time(self, tok, ttl, current_time) ==
    IF ttl = None THEN Raise("ValueError")
    ELSE decrypt_token_data(self, get_unverified_token_data(tok),
                            TimeInfo(ttl, current_time))

\* A slip: the timestamp is returned only for a token that also decrypts.
verified_timestamp_decrypting(self, u) ==
    IF ~u.ok THEN Raise(u.err)
    ELSE IF ~decrypt_data(self, u.data, u.timestamp, NoTimeInfo).ok THEN InvalidToken
    ELSE Ok(u.timestamp)

\* The end of Fernet.extract_timestamp: the signature is verified and the
\* timestamp returned.
verified_timestamp(self, u) ==
    IF ~u.ok THEN Raise(u.err)
    ELSE IF ~verify_signature(self, u.data) THEN InvalidToken
    ELSE Ok(u.timestamp)

\* Fernet.extract_timestamp
extract_timestamp(self, tok) == verified_timestamp(self, get_unverified_token_data(tok))

\* What Fernet._decrypt_data does after its time checks, in order, up to the
\* step that raises or to its end: "verify" is the call of _verify_signature,
\* "decryptor" the making and the use of the CBC decryptor, "unpadder" the
\* making and the use of the PKCS7 unpadder.
verify_and_decrypt_steps(self, data) ==
    IF ~verify_signature(self, data) THEN <<"verify">>
    ELSE IF Len(Slice(data, 9, 25)) # BlockSize THEN <<"verify", "decryptor">>
    ELSE IF ~CBC_decrypt(self.encryption_key, Slice(data, 9, 25),
                         Slice(DropLast(data, TagLen), 25, Len(data))).ok
    THEN <<"verify", "decryptor">>
    ELSE <<"verify", "decryptor", "unpadder">>

\* A slip: the tag is verified first, the time checks come after it.
decrypt_data_steps_verify_first(self, data, timestamp, time_info) ==
    IF ~verify_signature(self, data) THEN <<"verify">>
    ELSE IF ~time_info.present THEN verify_and_decrypt_steps(self, data)
    ELSE IF NumLess(NumAdd(timestamp, time_info.ttl), time_info.current_time)
    THEN <<"verify", "expiry">>
    ELSE IF NumLess(NumAdd(time_info.current_time, Num(MAX_CLOCK_SKEW)), timestamp)
    THEN <<"verify", "expiry", "skew">>
    ELSE <<"verify", "expiry", "skew", "decryptor", "unpadder">>

\* The steps of Fernet._decrypt_data, in order, up to the one that raises or
\* to its end: "expiry" and "skew" are the two comparisons made when
\* time_info is given.
decrypt_data_steps(self, data, timestamp, time_info) ==
    IF ~time_info.present THEN verify_and_decrypt_steps(self, data)
    ELSE IF NumLess(NumAdd(timestamp, time_info.ttl), time_info.current_time)
    THEN <<"expiry">>
    ELSE IF NumLess(NumAdd(time_info.current_time, Num(MAX_CLOCK_SKEW)), timestamp)
    THEN <<"expiry", "skew">>
    ELSE <<"expiry", "skew">> \o verify_and_decrypt_steps(self, data)

\* The steps of _decrypt_data within decrypt and decrypt_at_time: none when
\* _get_unverified_token_data raised.
token_data_steps(self, u, time_info) ==
    IF ~u.ok THEN <<>> ELSE decrypt_data_steps(self, u.data, u.timestamp, time_info)

decrypt_steps(self, tok, ttl, clock) ==
    token_data_steps(self, get_unverified_token_data(tok),
                     IF ttl = None THEN NoTimeInfo ELSE TimeInfo(ttl, clock))

decrypt_at_time_steps(self, tok, ttl, current_time) ==
    IF ttl = None THEN <<>>
    ELSE token_data_steps(self, get_unverified_token_data(tok),
                          TimeInfo(ttl, current_time))

\* ------------------------------------------------------- class MultiFernet

\* A list object: its identity and its items.
List(id, items) == [id |-> id, items |-> items]

\* A slip: the ring keeps the list object that it was given.
list_same(given) == given

\* list(fernets) in MultiFernet.__init__: a new list object with the items
\* of the one given.
list_copy(given) == List(given.id + 1, given.items)

\* A slip: any list is taken.
MultiFernet_init_any(fs) == Ok(fs)

\* MultiFernet.__init__: a copy of the list, which must not be empty.
MultiFernet_init(fs) ==
    IF Len(fs) = 0 THEN Raise("ValueError") ELSE Ok(fs)

\* A slip: the ring encrypts with its last engine.
Multi_encrypt_at_time_last(fs, msg, current_time, iv) ==
    encrypt_at_time(fs[Len(fs)], msg, current_time, iv)

\* MultiFernet.encrypt_at_time
Multi_encrypt_at_time(fs, msg, current_time, iv) ==
    encrypt_at_time(fs[1], msg, current_time, iv)

Tried(r, n) == [ok |-> r.ok, err |-> r.err, val |-> r.val, tried |-> n]

\* One turn of the loops of MultiFernet: engine i answered r; InvalidToken
\* is passed over and the loop goes on as rest, anything else ends it.
OrElse(r, i, rest) ==
    IF r.ok \/ r.err # "InvalidToken" THEN Tried(r, i) ELSE rest

RECURSIVE Multi_decrypt_from(_, _, _, _, _)
\* The loop of MultiFernet.decrypt from engine i on: the first engine that
\* does not raise InvalidToken ends it; clocks[i] is what int(time.time())
\* returned inside engine i's decrypt.  tried counts the engines called.
Multi_decrypt_from(fs, i, msg, ttl, clocks) ==
    IF i > Len(fs) THEN Tried(InvalidToken, Len(fs))
    ELSE OrElse(decrypt(fs[i], msg, ttl, clocks[i]), i,
                Multi_decrypt_from(fs, i + 1, msg, ttl, clocks))

\* A slip: the ring is walked from its last engine to its first.
Multi_decrypt_oldest_first(fs, msg, ttl, clocks) ==
    Multi_decrypt_from([i \in 1..Len(fs) |-> fs[Len(fs) + 1 - i]], 1, msg, ttl, clocks)

\* A slip: only the first engine is asked.
Multi_decrypt_first_only(fs, msg, ttl, clocks) ==
    Tried(decrypt(fs[1], msg, ttl, clocks[1]), 1)

\* MultiFernet.decrypt
Multi_decrypt(fs, msg, ttl, clocks) == Multi_decrypt_from(fs, 1, msg, ttl, clocks)

RECURSIVE Multi_decrypt_at_time_from(_, _, _, _, _)
\* The loop of MultiFernet.decrypt_at_time from engine i on.
Multi_decrypt_at_time_from(fs, i, msg, ttl, current_time) ==
    IF i > Len(fs) THEN Tried(InvalidToken, Len(fs))
    ELSE OrElse(decrypt_at_time(fs[i], msg, ttl, current_time), i,
                Multi_decrypt_at_time_from(fs, i + 1, msg, ttl, current_time))

\* A slip: decrypt_at_time asks the first engine only.
Multi_decrypt_at_time_first_only(fs, msg, ttl, current_time) ==
    Tried(decrypt_at_time(fs[1], msg, ttl, current_time), 1)

\* MultiFernet.decrypt_at_time
Multi_decrypt_at_time(fs, msg, ttl, current_time) ==
    Multi_decrypt_at_time_from(fs, 1, msg, ttl, current_time)

RECURSIVE rotate_from_with_ttl(_, _, _, _)
\* A slip: rotate's loop decrypts as decrypt_at_time does, with a ttl of 10
\* at time 1011.
rotate_from_with_ttl(fs, i, data, timestamp) ==
    IF i > Len(fs) THEN Tried(InvalidToken, Len(fs))
    ELSE OrElse(decrypt_data(fs[i], data, timestamp, TimeInfo(Num(10), Num(1011))), i,
                rotate_from_with_ttl(fs, i + 1, data, timestamp))

RECURSIVE rotate_from(_, _, _, _)
\* The for/else loop of MultiFernet.rotate from engine i on.
rotate_from(fs, i, data, timestamp) ==
    IF i > Len(fs) THEN Tried(InvalidToken, Len(fs))
    ELSE OrElse(decrypt_data(fs[i], data, timestamp, NoTimeInfo), i,
                rotate_from(fs, i + 1, data, timestamp))

\* A slip: the rotated token is stamped with the time of the rotation.
reencrypt_restamped(fs, p, timestamp, iv) ==
    IF ~p.ok THEN p
    ELSE Tried(encrypt_from_parts(fs[1], p.val, Num(1005), iv), p.tried)

\* A slip: the plaintext is encrypted again by the engine that decrypted it.
reencrypt_same_engine(fs, p, timestamp, iv) ==
    IF ~p.ok THEN p
    ELSE Tried(encrypt_from_parts(fs[p.tried], p.val, timestamp, iv), p.tried)

\* A slip: the loop's else branch is missing, and whatever the loop left is
\* encrypted.
reencrypt_unchecked(fs, p, timestamp, iv) ==
    Tried(encrypt_from_parts(fs[1], p.val, timestamp, iv), p.tried)

\* The end of MultiFernet.rotate: p is what the loop left, the plaintext or
\* InvalidToken; the first engine encrypts the plaintext with the timestamp
\* of the token given.
reencrypt(fs, p, timestamp, iv) ==
    IF ~p.ok THEN p
    ELSE Tried(encrypt_from_parts(fs[1], p.val, timestamp, iv), p.tried)

\* MultiFernet.rotate after _get_unverified_token_data returned or raised u.
rotate_token_data(fs, u, iv) ==
    IF ~u.ok THEN Tried(Raise(u.err), 0)
    ELSE reencrypt(fs, rotate_from(fs, 1, u.data, u.timestamp), u.timestamp, iv)

\* MultiFernet.rotate; iv is what os.urandom(16) returned.
rotate(fs, msg, iv) == rotate_token_data(fs, get_unverified_token_data(msg), iv)

\* ----------------------------------------------------------------- inputs

KeyNames == {"A", "B", "C"}

\* Three master keys: B shares nothing with A; C has A's signing half and an
\* encryption half that differs from A's in its first byte.
MasterKey(k) ==
    IF k = "A" THEN [i \in 1..KeyLen |-> i]
    ELSE IF k = "B" THEN [i \in 1..KeyLen |-> 100 + i]
    ELSE [i \in 1..KeyLen |-> IF i = 17 THEN 200 ELSE i]

\* The key as the caller presents it: 44 characters of base64url.
KeyText(k) == urlsafe_b64encode(MasterKey(k))

Hello == <<104, 101, 108, 108, 111>>

Payloads == {<<>>, Hello, [i \in 1..BlockSize |-> 64 + i]}

IVs == {[i \in 1..BlockSize |-> 200 + i], [i \in 1..BlockSize |-> 3 * i]}

Times == {Num(0), Num(1000), MaxU64}

\* 2^64 - 1 - n for n < 256.
MaxU64Minus(n) == [MaxU64 EXCEPT ![NumLen] = 255 - n]

\* (ttl, current_time) pairs around the expiry and clock-skew boundaries of a
\* token issued at 1000, and
\* around the clock-skew boundary of one issued at 2^64 - 1.
TimePolicies ==
    {<<Num(10), Num(1005)>>, <<Num(10), Num(1010)>>, <<Num(10), Num(1011)>>,
     <<Num(60), Num(1060)>>, <<Num(60), Num(1061)>>,
     <<Num(0), Num(939)>>, <<Num(0), Num(940)>>,
     <<Num(10), Num(939)>>, <<Num(10), Num(940)>>,
     <<Num(60), Num(939)>>, <<Num(60), Num(940)>>,
     <<Num(10), MaxU64Minus(61)>>, <<Num(10), MaxU64Minus(60)>>}

\* What time.time() may return to the calls of one MultiFernet.decrypt: one
\* reading per engine, never going back.
ClockReadings ==
    {[i \in 1..MaxRing |-> Num(1005)],
     [i \in 1..MaxRing |-> IF i = 1 THEN Num(1010) ELSE Num(1011)]}

\* The key rings: one to MaxRing engines of different keys, newest first.
Rings ==
    {ring \in UNION {[1..n -> KeyNames] : n \in 1..MaxRing} :
        \A i, j \in DOMAIN ring : ring[i] = ring[j] => i = j}

\* ------------------------------------------------------------------ state

NoOrigin == [by |-> "", data |-> <<>>, time |-> <<>>, iv |-> <<>>]

NoPrev == [token |-> <<>>, origin |-> NoOrigin, flips |-> 0]

Prev == [token |-> token, origin |-> origin, flips |-> flips]

Idle ==
    [op |-> "idle", who |-> "", ttl |-> None, now |-> None, clocks |-> <<>>,
     ok |-> TRUE, err |-> "", val |-> <<>>, tried |-> 0, prev |-> NoPrev,
     steps |-> <<>>, key |-> <<>>]

\* The record of a call: r is what it returned or raised.
Call(op, who, ttl, now, r, tried, prev) ==
    [op |-> op, who |-> who, ttl |-> ttl, now |-> now, clocks |-> <<>>,
     ok |-> r.ok, err |-> r.err, val |-> r.val, tried |-> tried, prev |-> prev,
     steps |-> <<>>, key |-> <<>>]

\* The record of a call of the ring.
RingCalled(op, ttl, now, r) == Call(op, "ring", ttl, now, r, r.tried, NoPrev)

NameOf(f) == CHOOSE k \in KeyNames : engines[k] = f

\* No list is kept by the caller; the ring's list is its own.
NoLists == [given |-> List(1, <<>>), ring_id |-> 0]

Threads == {1, 2}

\* A thread with no call under way.
IdleThread ==
    [pc |-> "idle", op |-> "", who |-> "", arg |-> <<>>, time |-> None, iv |-> <<>>,
     i |-> 0, goal |-> "", data |-> <<>>, timestamp |-> None, part |-> <<>>,
     p |-> <<>>, out |-> Ok(<<>>)]

\* An HMAC context before HMAC(key, ...) made it.
NoHmac == [key |-> <<>>, buf |-> <<>>]

\* One caller at a time, who keeps no list: the calls are whole steps.
NoCallers ==
    /\ lists = NoLists
    /\ threads = [t \in Threads |-> IdleThread]
    /\ hmacs = [h \in {0} \cup Threads |-> NoHmac]

\* Three engines built, no key ring.
Init ==
    /\ engines = [k \in KeyNames |-> Fernet_init(KeyText(k)).val]
    /\ fernets = <<>>
    /\ token = <<>>
    /\ origin = NoOrigin
    /\ flips = 0
    /\ result = Idle
    /\ NoCallers

\* The same with a key ring built from some of the engines.
InitMulti ==
    /\ engines = [k \in KeyNames |-> Fernet_init(KeyText(k)).val]
    /\ fernets \in {MultiFernet_init([i \in DOMAIN ring |->
                        Fernet_init(KeyText(ring[i])).val]).val : ring \in Rings}
    /\ token = <<>>
    /\ origin = NoOrigin
    /\ flips = 0
    /\ result = Idle
    /\ NoCallers

\* A call that returned a token leaves it with the caller.
Issue(r, by, data, time, iv) ==
    /\ token' = IF r.ok THEN r.val ELSE token
    /\ origin' = IF r.ok THEN [by |-> by, data |-> data, time |-> time, iv |-> iv]
                 ELSE origin
    /\ flips' = IF r.ok THEN 0 ELSE flips

\* Fernet.encrypt_at_time(data, current_time) on engine k.
EncryptAtTime(k, data, current_time, iv) ==
    /\ result.op = "idle"
    /\ LET r == encrypt_at_time(engines[k], data, current_time, iv)
       IN  /\ Issue(r, k, data, current_time, iv)
           /\ result' = Call("encrypt_at_time", k, None, current_time, r, 0, NoPrev)
    /\ UNCHANGED <<lists, threads, hmacs, engines, fernets>>

\* MultiFernet.encrypt_at_time(msg, current_time).
MultiEncryptAtTime(msg, current_time, iv) ==
    /\ result.op = "idle"
    /\ LET r == Multi_encrypt_at_time(fernets, msg, current_time, iv)
       IN  /\ Issue(r, NameOf(fernets[1]), msg, current_time, iv)
           /\ result' = Call("multi_encrypt_at_time", "ring", None, current_time,
                             r, 0, NoPrev)
    /\ UNCHANGED <<lists, threads, hmacs, engines, fernets>>

\* Fernet.decrypt(token, ttl) on engine k, the clock reading clock.
Decrypt(k, ttl, clock) ==
    /\ result.op = "idle"
    /\ token # <<>>
    /\ result' = [Call("decrypt", k, ttl, IF ttl = None THEN None ELSE clock,
                       decrypt(engines[k], token, ttl, clock), 0, NoPrev)
                      EXCEPT !.steps = decrypt_steps(engines[k], token, ttl, clock)]
    /\ UNCHANGED <<lists, threads, hmacs, engines, fernets, token, origin, flips>>

\* Fernet.decrypt_at_time(token, ttl, current_time) on engine k.
DecryptAtTime(k, ttl, current_time) ==
    /\ result.op = "idle"
    /\ token # <<>>
    /\ result' = [Call("decrypt_at_time", k, ttl, current_time,
                       decrypt_at_time(engines[k], token, ttl, current_time), 0, NoPrev)
                      EXCEPT !.steps =
                          decrypt_at_time_steps(engines[k], token, ttl, current_time)]
    /\ UNCHANGED <<lists, threads, hmacs, engines, fernets, token, origin, flips>>

\* Fernet.extract_timestamp(token) on engine k.
ExtractTimestamp(k) ==
    /\ result.op = "idle"
    /\ token # <<>>
    /\ result' = Call("extract_timestamp", k, None, None,
                      extract_timestamp(engines[k], token), 0, NoPrev)
    /\ UNCHANGED <<lists, threads, hmacs, engines, fernets, token, origin, flips>>

\* MultiFernet.decrypt(msg, ttl).
MultiDecrypt(ttl, clocks) ==
    /\ result.op = "idle"
    /\ token # <<>>
    /\ result' = [RingCalled("multi_decrypt", ttl, None,
                              Multi_decrypt(fernets, token, ttl, clocks))
                      EXCEPT !.clocks = IF ttl = None THEN <<>> ELSE clocks]
    /\ UNCHANGED <<lists, threads, hmacs, engines, fernets, token, origin, flips>>

\* MultiFernet.decrypt_at_time(msg, ttl, current_time).
MultiDecryptAtTime(ttl, current_time) ==
    /\ result.op = "idle"
    /\ token # <<>>
    /\ result' = RingCalled("multi_decrypt_at_time", ttl, current_time,
                             Multi_decrypt_at_time(fernets, token, ttl, current_time))
    /\ UNCHANGED <<lists, threads, hmacs, engines, fernets, token, origin, flips>>

\* rotate returned or raised r for a token that holds u: a rotated token is
\* one of the first engine, over the plaintext that rotate's loop found.
Rotated(r, u, iv) ==
    /\ Issue(r, NameOf(fernets[1]),
             rotate_from(fernets, 1, u.data, u.timestamp).val, u.timestamp, iv)
    /\ result' = Call("rotate", "ring", None, None, r, r.tried, Prev)

\* MultiFernet.rotate(msg): the caller swaps the token for the rotated one.
Rotate(iv) ==
    /\ result.op = "idle"
    /\ token # <<>>
    /\ Rotated(rotate(fernets, token, iv), get_unverified_token_data(token), iv)
    /\ UNCHANGED <<lists, threads, hmacs, engines, fernets>>

\* The caller takes the result of the call; the next call can start.
Return ==
    /\ result.op # "idle"
    /\ result' = Idle
    /\ UNCHANGED <<lists, threads, hmacs, engines, fernets, token, origin, flips>>

\* Someone on the way flips bit b of character i of the token.
FlipBit(i, b) ==
    /\ result.op = "idle"
    /\ flips = 0
    /\ i \in 1..Len(token)
    /\ token' = [token EXCEPT ![i] =
                    IF (@ \div (2 ^ b)) % 2 = 1 THEN @ - 2 ^ b ELSE @ + 2 ^ b]
    /\ flips' = 1
    /\ UNCHANGED <<lists, threads, hmacs, engines, fernets, origin, result>>

\* Single engines: every call of class Fernet.
Next ==
    \/ \E k \in KeyNames, data \in Payloads, t \in Times, iv \in IVs :
           EncryptAtTime(k, data, t, iv)
    \/ \E k \in KeyNames, ttl \in {None, Num(10)}, clock \in {Num(1005), Num(1011)} :
           Decrypt(k, ttl, clock)
    \/ \E k \in KeyNames, tp \in TimePolicies : DecryptAtTime(k, tp[1], tp[2])
    \/ \E k \in KeyNames : ExtractTimestamp(k)
    \/ Return

Spec == Init /\ [][Next]_vars

\* (ttl, current_time) pairs for the ring: in time, expired, at the clock-skew
\* boundary and past it.
RingPolicies ==
    {<<Num(10), Num(1005)>>, <<Num(10), Num(1011)>>,
     <<Num(60), Num(940)>>, <<Num(60), Num(939)>>}

\* A key ring: tokens come from any engine or from the ring, and go to the ring.
NextMulti ==
    \/ \E k \in KeyNames, data \in {<<>>, Hello}, t \in {Num(1000), MaxU64}, iv \in IVs :
           EncryptAtTime(k, data, t, iv)
    \/ \E data \in {<<>>, Hello}, t \in {Num(1000), MaxU64}, iv \in IVs :
           MultiEncryptAtTime(data, t, iv)
    \/ \E ttl \in {None, Num(10)}, clocks \in ClockReadings : MultiDecrypt(ttl, clocks)
    \/ \E tp \in RingPolicies : MultiDecryptAtTime(tp[1], tp[2])
    \/ \E iv \in IVs : Rotate(iv)
    \/ Return

SpecMulti == InitMulti /\ [][NextMulti]_vars

\* Payloads whose tokens end in "==", in "=" and in no padding.
FlipPayloads == {Hello, [i \in 1..20 |-> 64 + i], [i \in 1..32 |-> 64 + i]}

\* The life of one token of engine A: issued, one bit flipped or none, and
\* presented to engine A.
NextFlip ==
    \/ /\ token = <<>>
       /\ \E data \in FlipPayloads, iv \in IVs :
              EncryptAtTime("A", data, Num(1000), iv)
    \/ \E i \in 1..Len(token), b \in 0..7 : FlipBit(i, b)
    \/ Decrypt("A", None, None)
    \/ \E now \in {Num(1005), Num(1011)} : DecryptAtTime("A", Num(10), now)
    \/ Return

SpecFlip == Init /\ [][NextFlip]_vars

\* ---------------------------------------------------- tokens made by hand

\* What a token made by hand decodes to before its tag: nothing at all, the
\* version byte alone, a timestamp cut short, no IV, half an IV, no
\* ciphertext (57 bytes with the tag), a ciphertext that is not whole blocks,
\* one that does not unpad, a well-formed one, and a well-formed one under
\* another version byte.
Shapes ==
    {"empty", "version", "short_ts", "no_iv", "half_iv", "no_ciphertext",
     "misaligned", "bad_padding", "good", "bad_version"}

ForgedIV == [i \in 1..BlockSize |-> 200 + i]

Shape(self, sh) ==
    LET head == <<128>> \o pack_Q(Num(1000)).val
        good == CBC_encrypt(self.encryption_key, ForgedIV, PKCS7_pad(Hello))
        bad == CBC_encrypt(self.encryption_key, ForgedIV, Repeat(0, BlockSize))
    IN  IF sh = "empty" THEN <<>>
        ELSE IF sh = "version" THEN <<128>>
        ELSE IF sh = "short_ts" THEN <<128, 0, 0>>
        ELSE IF sh = "no_iv" THEN head
        ELSE IF sh = "half_iv" THEN head \o SubSeq(ForgedIV, 1, 8)
        ELSE IF sh = "no_ciphertext" THEN head \o ForgedIV
        ELSE IF sh = "misaligned" THEN head \o ForgedIV \o SubSeq(good, 1, 15)
        ELSE IF sh = "bad_padding" THEN head \o ForgedIV \o bad
        ELSE IF sh = "good" THEN head \o ForgedIV \o good
        ELSE <<129>> \o pack_Q(Num(1000)).val \o ForgedIV \o good

\* The tag put after them: the right one under the maker's signing key, the
\* right one with its first byte changed, or none.
TagKinds == {"valid", "wrong", "none"}

ForgedTag(self, body, kind) ==
    IF kind = "none" THEN <<>>
    ELSE IF kind = "valid" THEN HMAC_SHA256(self.signing_key, body)
    ELSE [HMAC_SHA256(self.signing_key, body) EXCEPT ![1] = (@ + 1) % 256]

\* How the bytes are written: as base64url, as base64url after a "!", which
\* the decoder skips, or as base64url with its last character cut off.
Encodings == {"base64url", "noisy", "cut"}

Encoded(bytes, enc) ==
    IF enc = "base64url" THEN urlsafe_b64encode(bytes)
    ELSE IF enc = "noisy" THEN <<33>> \o urlsafe_b64encode(bytes)
    ELSE DropLast(urlsafe_b64encode(bytes), 1)

Signed(self, body, kind, enc) == Encoded(body \o ForgedTag(self, body, kind), enc)

\* Someone who holds engine k's key hands over a token made by hand.
Forge(k, sh, kind, enc) ==
    /\ result.op = "idle"
    /\ token = <<>>
    /\ token' = Signed(engines[k], Shape(engines[k], sh), kind, enc)
    /\ token' # <<>>
    /\ origin' = NoOrigin
    /\ flips' = 0
    /\ UNCHANGED <<lists, threads, hmacs, engines, fernets, result>>

\* The constructor returned or raised r: the caller holds the new ring, or
\* the ring it had.
RingBuilt(names, r) ==
    /\ fernets' = IF r.ok THEN r.val ELSE fernets
    /\ result' = Call("multi_init", names, None, None, r, 0, NoPrev)

\* MultiFernet(fernets) over the engines of the keys named.
MultiFernetInit(names) ==
    /\ result.op = "idle"
    /\ RingBuilt(names, MultiFernet_init([i \in DOMAIN names |-> engines[names[i]]]))
    /\ UNCHANGED <<lists, threads, hmacs, engines, token, origin, flips>>

\* The engines A and B and the ring [B, A].
InitForge ==
    /\ engines = [k \in KeyNames |-> Fernet_init(KeyText(k)).val]
    /\ fernets = MultiFernet_init(<<Fernet_init(KeyText("B")).val,
                                    Fernet_init(KeyText("A")).val>>).val
    /\ token = <<>>
    /\ origin = NoOrigin
    /\ flips = 0
    /\ result = Idle
    /\ NoCallers

\* (ttl, current_time) pairs for a token stamped 1000: no ttl, in time,
\* expired, and stamped too far ahead.
ForgePolicies ==
    {<<None, Num(1005)>>, <<Num(10), Num(1005)>>, <<Num(10), Num(1011)>>,
     <<Num(60), Num(939)>>}

\* Tokens made by hand, and rings made anew, given to every operation.
NextForge ==
    \/ \E k \in {"A", "B"}, sh \in Shapes, kind \in TagKinds, enc \in Encodings :
           Forge(k, sh, kind, enc)
    \/ \E names \in {<<>>, <<"A">>, <<"B", "A">>} : MultiFernetInit(names)
    \/ \E k \in KeyNames : Decrypt(k, None, None)
    \/ \E k \in {"A", "B"}, tp \in ForgePolicies : DecryptAtTime(k, tp[1], tp[2])
    \/ \E k \in KeyNames : ExtractTimestamp(k)
    \/ MultiEncryptAtTime(Hello, Num(1000), ForgedIV)
    \/ \E tp \in ForgePolicies : MultiDecryptAtTime(tp[1], tp[2])
    \/ Rotate(ForgedIV)
    \/ Return

SpecForge == InitForge /\ [][NextForge]_vars

\* ------------------------------------------------------ keys made by hand

\* What os.urandom(32) may return.
Randoms == {[i \in 1..KeyLen |-> (7 * i) % 256], [i \in 1..KeyLen |-> 255 - i]}

\* The keys a caller may present: the key of its name, that of "A" with its
\* two halves swapped, one from generate_key, base64url of 31 bytes, of 33
\* bytes, of 16 bytes and of none, and a key with its last character cut
\* off, which does not decode.
KeyKinds ==
    {"own", "swapped", "generated", "short", "long", "half", "empty", "cut"}

KeyFor(k, kind) ==
    IF kind = "own" THEN KeyText(k)
    ELSE IF kind = "swapped"
    THEN urlsafe_b64encode(SubSeq(MasterKey("A"), 17, KeyLen)
                               \o SubSeq(MasterKey("A"), 1, 16))
    ELSE IF kind = "generated"
    THEN generate_key(CHOOSE r \in Randoms : k = "A" <=> r[1] = 7)
    ELSE IF kind = "short" THEN urlsafe_b64encode(SubSeq(MasterKey(k), 1, KeyLen - 1))
    ELSE IF kind = "long" THEN urlsafe_b64encode(MasterKey(k) \o <<0>>)
    ELSE IF kind = "half" THEN urlsafe_b64encode(SubSeq(MasterKey(k), 1, 16))
    ELSE IF kind = "empty" THEN <<>>
    ELSE DropLast(KeyText(k), 1)

\* The constructor returned or raised r: the caller holds the new engine
\* under the name k, or the engine it had.
EngineBuilt(k, key, r) ==
    /\ engines' = IF r.ok THEN [engines EXCEPT ![k] = r.val] ELSE engines
    /\ result' = [Call("init", k, None, None, r, 0, NoPrev) EXCEPT !.key = key]

\* Fernet(key): engines are built before the first token is issued.
FernetInit(k, key) ==
    /\ result.op = "idle"
    /\ token = <<>>
    /\ EngineBuilt(k, key, Fernet_init(key))
    /\ UNCHANGED <<lists, threads, hmacs, fernets, token, origin, flips>>

\* Engines built from any key, and their tokens given to every engine.
NextKeys ==
    \/ \E k \in {"A", "B"}, kind \in KeyKinds : FernetInit(k, KeyFor(k, kind))
    \/ \E k \in {"A", "B"}, data \in {<<>>, Hello}, iv \in IVs :
           EncryptAtTime(k, data, Num(1000), iv)
    \/ \E k \in KeyNames : Decrypt(k, None, None)
    \/ \E k \in KeyNames : ExtractTimestamp(k)
    \/ Return

SpecKeys == Init /\ [][NextKeys]_vars

\* --------------------------------------------------- the ends of the ranges

\* Payloads that end before, at and after the end of a block.
WirePayloads == {[i \in 1..n |-> 64 + i] : n \in {0, 5, 15, 16, 17, 32}}

\* 2^64, the first integer that struct.pack(">Q") refuses.
TwoTo64 == NumAdd(MaxU64, Num(1))

\* -1: an integer below zero is kept in two's complement over the NumLen
\* digits, so its first digit is not 0.
MinusOne == Repeat(255, NumLen)

\* The times to encrypt at: inside [0, 2^64 - 1], its two ends, and the
\* integers next to them outside.
WireTimes == {MinusOne, Num(0), Num(1000), MaxU64, TwoTo64}

\* (ttl, current_time) pairs about a token stamped 2^64 - 1: a clock 61 and
\* 60 seconds behind it, a clock level with it, the greatest ttl there, and
\* a clock 10 and 11 seconds past it.
WirePolicies ==
    {<<Num(10), MaxU64Minus(61)>>, <<Num(10), MaxU64Minus(60)>>,
     <<Num(0), MaxU64>>, <<MaxU64, MaxU64>>,
     <<Num(10), NumAdd(MaxU64, Num(10))>>, <<Num(10), NumAdd(MaxU64, Num(11))>>}

\* The engines A and B and the ring [B, A], with payloads of every length
\* about a block and times about the ends of the timestamp's range.
NextWire ==
    \/ \E k \in {"A", "B"}, data \in WirePayloads, t \in WireTimes, iv \in IVs :
           EncryptAtTime(k, data, t, iv)
    \/ \E data \in WirePayloads, t \in WireTimes, iv \in IVs :
           MultiEncryptAtTime(data, t, iv)
    \/ \E k \in {"A", "B"}, tp \in WirePolicies : DecryptAtTime(k, tp[1], tp[2])
    \/ \E iv \in IVs : Rotate(iv)
    \/ Return

SpecWire == InitForge /\ [][NextWire]_vars

\* ------------------------------------------------- a list the caller keeps

Reversed(items) == [i \in 1..Len(items) |-> items[Len(items) + 1 - i]]

\* What the caller's list holds after pop(), reverse(), clear() or the
\* append of an engine; a list is never longer than MaxRing.
ListChanges(items) ==
    ({DropLast(items, 1), Reversed(items), <<>>}
        \cup {Append(items, engines[k]) : k \in {k \in KeyNames : Len(items) < MaxRing}})
    \ {items}

\* The caller changes the list that the ring was built from: whoever holds
\* that list object holds the new items.
ListChange(items) ==
    /\ result.op = "idle"
    /\ lists' = [lists EXCEPT !.given.items = items]
    /\ fernets' = IF lists.ring_id = lists.given.id THEN items ELSE fernets
    /\ UNCHANGED <<threads, hmacs, engines, token, origin, flips, result>>

\* The caller's list [B, A] and the ring MultiFernet made of it.
InitLists ==
    /\ engines = [k \in KeyNames |-> Fernet_init(KeyText(k)).val]
    /\ lists = [given |-> List(1, <<Fernet_init(KeyText("B")).val,
                                     Fernet_init(KeyText("A")).val>>),
                ring_id |-> list_copy(List(1, <<>>)).id]
    /\ fernets = MultiFernet_init(<<Fernet_init(KeyText("B")).val,
                                    Fernet_init(KeyText("A")).val>>).val
    /\ token = <<>>
    /\ origin = NoOrigin
    /\ flips = 0
    /\ result = Idle
    /\ threads = [t \in Threads |-> IdleThread]
    /\ hmacs = [h \in {0} \cup Threads |-> NoHmac]

\* Every call on the engines and on the ring, between changes of the list.
NextLists ==
    \/ \E items \in ListChanges(lists.given.items) : ListChange(items)
    \/ \E k \in KeyNames : EncryptAtTime(k, Hello, Num(1000), ForgedIV)
    \/ MultiEncryptAtTime(Hello, Num(1000), ForgedIV)
    \/ \E k \in KeyNames : Decrypt(k, None, None)
    \/ \E k \in {"A", "B"}, now \in {Num(1005), Num(1011)} :
           DecryptAtTime(k, Num(10), now)
    \/ \E k \in KeyNames : ExtractTimestamp(k)
    \/ \E now \in {Num(1005), Num(1011)} : MultiDecryptAtTime(Num(10), now)
    \/ Rotate(ForgedIV)
    \/ Return

SpecLists == InitLists /\ [][NextLists]_vars

\* ------------------------------------------------------ concurrent callers

\* A slip: the HMAC context is kept on the engine, one for all its calls.
hmac_context_shared(t) == 0

\* h = HMAC(...) in _encrypt_from_parts and _verify_signature: a local
\* variable, so every call has a context of its own.
hmac_context(t) == t

\* The engine whose method thread t is in: the engine called, or in rotate
\* the engine that the loop has come to, and the first one to encrypt again.
Self(t) ==
    IF threads[t].op # "rotate" THEN engines[threads[t].who]
    ELSE IF threads[t].goal = "sign" THEN fernets[1]
    ELSE fernets[threads[t].i]

\* The first half of _encrypt_from_parts: the bytes to sign.
basic_parts(self, data, current_time, iv) ==
    IF ~pack_Q(current_time).ok THEN Raise(pack_Q(current_time).err)
    ELSE Ok(<<128>> \o pack_Q(current_time).val \o iv
               \o CBC_encrypt(self.encryption_key, iv, PKCS7_pad(data)))

\* The unpadder at the end of _decrypt_data, on what the decryptor gave.
unpadder(plaintext_padded) ==
    IF ~plaintext_padded.ok THEN InvalidToken
    ELSE IF ~PKCS7_unpad(plaintext_padded.val).ok THEN InvalidToken
    ELSE Ok(PKCS7_unpad(plaintext_padded.val).val)

\* _decrypt_data after the signature was verified: decryptor and unpadder.
decrypt_verified(self, data) ==
    IF Len(Slice(data, 9, 25)) # BlockSize THEN Raise("ValueError")
    ELSE unpadder(CBC_decrypt(self.encryption_key, Slice(data, 9, 25),
                              Slice(DropLast(data, TagLen), 25, Len(data))))

\* Thread t goes to where, with its local variables set as in loc.
Goto(t, where, loc) ==
    threads' = [threads EXCEPT ![t] = [loc EXCEPT !.pc = where]]

\* The call of thread t is over: it returned or raised r.
Done(t, r) ==
    threads' = [threads EXCEPT ![t] =
                   [@ EXCEPT !.pc = "done",
                             !.out = [ok |-> r.ok, err |-> r.err, val |-> r.val]]]

\* Thread t calls encrypt_at_time(data, current_time) on engine k; iv is
\* what os.urandom(16) will return to it.
BeginEncrypt(t, k, data, current_time, iv) ==
    /\ threads[t].pc = "idle"
    /\ Goto(t, "encryptor",
            [IdleThread EXCEPT !.op = "encrypt_at_time", !.who = k, !.arg = data,
                               !.time = current_time, !.iv = iv, !.p = data,
                               !.timestamp = current_time, !.goal = "sign"])
    /\ UNCHANGED <<lists, hmacs, engines, fernets, token, origin, flips, result>>

\* Thread t calls decrypt(token) or extract_timestamp(token) on engine k,
\* or rotate(token) on the ring.
BeginToken(t, op, k, iv) ==
    /\ threads[t].pc = "idle"
    /\ token # <<>>
    /\ Goto(t, "start",
            [IdleThread EXCEPT !.op = op, !.who = k, !.arg = token, !.iv = iv])
    /\ UNCHANGED <<lists, hmacs, engines, fernets, token, origin, flips, result>>

\* _get_unverified_token_data returned or raised u.
Parsed(t, u) ==
    IF ~u.ok THEN Done(t, Raise(u.err))
    ELSE Goto(t, "hmac_new",
              [threads[t] EXCEPT !.data = u.data, !.timestamp = u.timestamp,
                                 !.i = 1, !.goal = "verify"])

Start(t) ==
    /\ threads[t].pc = "start"
    /\ Parsed(t, get_unverified_token_data(threads[t].arg))
    /\ UNCHANGED <<lists, hmacs, engines, fernets, token, origin, flips, result>>

\* padder, encryptor and basic_parts of _encrypt_from_parts, b being what
\* they gave.
Assembled(t, b) ==
    IF ~b.ok THEN Done(t, b)
    ELSE Goto(t, "hmac_new", [threads[t] EXCEPT !.part = b.val])

Encryptor(t) ==
    /\ threads[t].pc = "encryptor"
    /\ Assembled(t, basic_parts(Self(t), threads[t].p, threads[t].timestamp,
                                threads[t].iv))
    /\ UNCHANGED <<lists, hmacs, engines, fernets, token, origin, flips, result>>

\* h = HMAC(self._signing_key, ...)
HmacNew(t) ==
    /\ threads[t].pc = "hmac_new"
    /\ hmacs' = [hmacs EXCEPT ![hmac_context(t)] =
                     [key |-> Self(t).signing_key, buf |-> <<>>]]
    /\ Goto(t, "hmac_update", threads[t])
    /\ UNCHANGED <<lists, engines, fernets, token, origin, flips, result>>

\* h.update(basic_parts), h.update(data[:-32])
HmacUpdate(t) ==
    /\ threads[t].pc = "hmac_update"
    /\ hmacs' = [hmacs EXCEPT ![hmac_context(t)].buf =
                     @ \o (IF threads[t].goal = "sign" THEN threads[t].part
                           ELSE DropLast(threads[t].data, TagLen))]
    /\ Goto(t, IF threads[t].goal = "sign" THEN "hmac_finalize" ELSE "hmac_verify",
            threads[t])
    /\ UNCHANGED <<lists, engines, fernets, token, origin, flips, result>>

\* hmac = h.finalize() and the return of _encrypt_from_parts
HmacFinalize(t) ==
    /\ threads[t].pc = "hmac_finalize"
    /\ Done(t, Ok(urlsafe_b64encode(
                      threads[t].part
                          \o HMAC_SHA256(hmacs[hmac_context(t)].key,
                                         hmacs[hmac_context(t)].buf))))
    /\ UNCHANGED <<lists, hmacs, engines, fernets, token, origin, flips, result>>

\* InvalidToken in the loop of rotate: the next engine, or the else branch.
NextEngine(t) ==
    IF threads[t].i < Len(fernets)
    THEN Goto(t, "hmac_new", [threads[t] EXCEPT !.i = @ + 1])
    ELSE Done(t, InvalidToken)

\* h.verify(data[-32:]): extract_timestamp returns after it, _decrypt_data
\* goes on.
HmacVerify(t) ==
    /\ threads[t].pc = "hmac_verify"
    /\ IF HMAC_SHA256(hmacs[hmac_context(t)].key, hmacs[hmac_context(t)].buf)
              = TakeLast(threads[t].data, TagLen)
       THEN IF threads[t].op = "extract_timestamp"
            THEN Done(t, Ok(threads[t].timestamp))
            ELSE Goto(t, "decryptor", threads[t])
       ELSE IF threads[t].op = "rotate" THEN NextEngine(t)
            ELSE Done(t, InvalidToken)
    /\ UNCHANGED <<lists, hmacs, engines, fernets, token, origin, flips, result>>

\* The decryptor and the unpadder gave r: decrypt returns or raises it,
\* rotate breaks out of its loop, or goes on after InvalidToken.
Decrypted(t, r) ==
    IF threads[t].op = "decrypt" THEN Done(t, r)
    ELSE IF r.ok THEN Goto(t, "encryptor", [threads[t] EXCEPT !.p = r.val, !.goal = "sign"])
    ELSE IF r.err = "InvalidToken" THEN NextEngine(t)
    ELSE Done(t, r)

Decryptor(t) ==
    /\ threads[t].pc = "decryptor"
    /\ Decrypted(t, decrypt_verified(Self(t), threads[t].data))
    /\ UNCHANGED <<lists, hmacs, engines, fernets, token, origin, flips, result>>

\* The caller of thread t takes what the call returned; a token is kept.
Finish(t) ==
    /\ threads[t].pc = "done"
    /\ threads' = [threads EXCEPT ![t] = IdleThread]
    /\ hmacs' = [hmacs EXCEPT ![hmac_context(t)] = NoHmac]
    /\ IF threads[t].out.ok /\ threads[t].op \in {"encrypt_at_time", "rotate"}
       THEN /\ token' = threads[t].out.val
            /\ origin' = [by |-> IF threads[t].op = "rotate" THEN NameOf(fernets[1])
                                 ELSE threads[t].who,
                          data |-> threads[t].p, time |-> threads[t].timestamp,
                          iv |-> threads[t].iv]
            /\ flips' = 0
       ELSE UNCHANGED <<token, origin, flips>>
    /\ UNCHANGED <<lists, engines, fernets, result>>

\* What os.urandom(16) returns to thread t.
ThreadIV(t) == [i \in 1..BlockSize |-> 50 * t + i]

\* Two threads call the engines A and B and the ring [B, A], their calls
\* going on statement by statement in any order.
NextThreads ==
    \E t \in Threads :
        \/ \E k \in {"A", "B"} : BeginEncrypt(t, k, Hello, Num(1000), ThreadIV(t))
        \/ \E k \in {"A", "B"}, op \in {"decrypt", "extract_timestamp"} :
               BeginToken(t, op, k, <<>>)
        \/ BeginToken(t, "rotate", "ring", ThreadIV(t))
        \/ Start(t)
        \/ Encryptor(t)
        \/ HmacNew(t)
        \/ HmacUpdate(t)
        \/ HmacFinalize(t)
        \/ HmacVerify(t)
        \/ Decryptor(t)
        \/ Finish(t)

SpecThreads == InitForge /\ [][NextThreads]_vars

\* ----------------------------------------------------------------- claims

\* The bytes a token decodes to (none if it does not decode).
Decoded(tok) == urlsafe_b64decode(tok).val

\* The token's last 32 bytes are not the tag, under engine k's signing key,
\* of the bytes before them.
TagMismatch(k, tok) ==
    TakeLast(Decoded(tok), TagLen)
        # HMAC_SHA256(SubSeq(MasterKey(k), 1, 16), DropLast(Decoded(tok), TagLen))

Rejected == ~result.ok /\ result.err = "InvalidToken" /\ result.val = <<>>

\* C1: round trip.  Whenever an engine decrypts, with no ttl, a token that it
\* issued itself and that nobody changed, the call returns exactly the
\* payload that was encrypted, whatever the payload, the time and the IV.
C1_RoundTrip ==
    (result.op = "decrypt" /\ result.ttl = None /\ flips = 0
        /\ result.who = origin.by)
    => (result.ok /\ result.val = origin.data)

\* C1 happens: the empty payload issued at time 2^64 - 1 came back.
C1_Witness ==
    /\ result.op = "decrypt" /\ result.ttl = None /\ flips = 0
    /\ result.who = origin.by
    /\ origin.data = <<>> /\ origin.time = MaxU64
    /\ result.ok /\ result.val = <<>>

\* C2: the tag is always checked.  decrypt and decrypt_at_time reject, with
\* InvalidToken and without any plaintext, every token whose last 32 bytes
\* are not the tag of the bytes before them under the engine's signing key,
\* whatever the ttl and the time are.
C2_TagChecked ==
    (result.op \in {"decrypt", "decrypt_at_time"} /\ TagMismatch(result.who, token))
    => Rejected

\* C2 happens: a token with a wrong tag, inside its ttl and the clock skew,
\* was rejected by decrypt_at_time.
C2_Witness ==
    /\ result.op = "decrypt_at_time"
    /\ TagMismatch(result.who, token)
    /\ get_unverified_token_data(token).ok
    /\ ~time_checks_fail(get_unverified_token_data(token).timestamp,
                         TimeInfo(result.ttl, result.now))
    /\ Rejected

\* C3: tamper sensitivity.  Whenever the engine that issued a token decrypts
\* it after one of its bits was flipped, whichever bit, the call fails with
\* InvalidToken.
C3_TamperSensitive ==
    (result.op = "decrypt" /\ flips = 1 /\ result.who = origin.by) => Rejected

\* The part of C3 that the code keeps: a flipped bit that changes the bytes
\* the token decodes to makes decrypt fail.
C3_DecodedTamperSensitive ==
    (result.op = "decrypt" /\ flips = 1 /\ result.who = origin.by
        /\ Decoded(token) # Decoded(encrypt_from_parts(engines[origin.by],
                                origin.data, origin.time, origin.iv).val))
    => Rejected

\* An engine's own untouched token comes back through decrypt_at_time.
OwnToken == result.op = "decrypt_at_time" /\ flips = 0 /\ result.who = origin.by

Accepted == result.ok /\ result.val = origin.data

\* C4: expiry boundary.  A token issued at T and decrypted by its engine with
\* (ttl, now) is rejected with InvalidToken when T + ttl < now, and accepted
\* when T + ttl >= now and T <= now + 60: the last accepted moment is
\* now = T + ttl.
C4_ExpiryBoundary ==
    OwnToken =>
        /\ NumLess(NumAdd(origin.time, result.ttl), result.now) => Rejected
        /\ (/\ ~NumLess(NumAdd(origin.time, result.ttl), result.now)
            /\ ~NumLess(NumAdd(result.now, Num(60)), origin.time)) => Accepted

\* C4 happens: issued at 1000 with ttl 60, the token was accepted at 1060.
C4_Witness ==
    /\ OwnToken /\ origin.time = Num(1000)
    /\ result.ttl = Num(60) /\ result.now = Num(1060)
    /\ Accepted

\* C5: clock-skew boundary.  With a ttl policy present, a token whose
\* timestamp is now + 60 is accepted and one whose timestamp is now + 61 is
\* rejected with InvalidToken, whatever the ttl is.
C5_SkewBoundary ==
    OwnToken =>
        /\ origin.time = NumAdd(result.now, Num(60)) => Accepted
        /\ origin.time = NumAdd(result.now, Num(61)) => Rejected

\* C5 happens: with ttl 0 a token stamped 60 seconds ahead was accepted.
C5_Witness ==
    /\ OwnToken /\ result.ttl = Num(0)
    /\ origin.time = NumAdd(result.now, Num(60))
    /\ Accepted

\* What engine i of the ring answers to the call in result, asked alone.
EngineOutcome(i) ==
    IF result.op = "multi_decrypt"
    THEN decrypt(fernets[i], token, result.ttl,
                 IF result.ttl = None THEN None ELSE result.clocks[i])
    ELSE decrypt_at_time(fernets[i], token, result.ttl, result.now)

RingCall == result.op \in {"multi_decrypt", "multi_decrypt_at_time"}

\* C6: ring order.  MultiFernet.decrypt and decrypt_at_time answer what the
\* first engine of the ring that accepts the token answers, having asked the
\* engines before it and none after it; when no engine accepts it they fail
\* with InvalidToken and nothing else, after asking every engine.
C6_RingOrder ==
    RingCall =>
        IF \A i \in 1..Len(fernets) : ~EngineOutcome(i).ok
        THEN Rejected /\ result.tried = Len(fernets)
        ELSE LET j == CHOOSE i \in 1..Len(fernets) :
                          /\ EngineOutcome(i).ok
                          /\ \A h \in 1..(i - 1) : ~EngineOutcome(h).ok
             IN  /\ result.ok
                 /\ result.val = EngineOutcome(j).val
                 /\ result.tried = j

\* C6 happens: the first engine refused the token and the second one, with a
\* ttl and a later clock reading, returned the payload.
C6_Witness ==
    /\ result.op = "multi_decrypt" /\ result.ttl # None
    /\ Len(fernets) = 2
    /\ ~EngineOutcome(1).ok /\ EngineOutcome(2).ok
    /\ result.ok /\ result.val = Hello /\ result.tried = 2

\* The engine that issued the token is engine i of the ring.
IssuerAt(rec, i) == rec.by \in KeyNames /\ fernets[i] = engines[rec.by]

\* An engine before engine i has engine i's signing key and another
\* encryption key.
Shadowed(i) ==
    \E j \in 1..(i - 1) :
        /\ fernets[j].signing_key = fernets[i].signing_key
        /\ fernets[j].encryption_key # fernets[i].encryption_key

RingDecryptNoTtl == result.op = "multi_decrypt" /\ result.ttl = None /\ flips = 0

\* C7 as stated: for any ring and any position i, MultiFernet.decrypt with no
\* ttl returns the payload of a token that engine i issued.
C7_RingFallbackAnyRing ==
    (RingDecryptNoTtl /\ \E i \in 1..Len(fernets) : IssuerAt(origin, i))
    => (result.ok /\ result.val = origin.data)

\* C7: ring fallback.  MultiFernet.decrypt with no ttl returns the payload of
\* a token that engine i of the ring issued, provided no engine before
\* engine i has engine i's signing key with another encryption key.
C7_RingFallback ==
    (RingDecryptNoTtl
        /\ \E i \in 1..Len(fernets) : IssuerAt(origin, i) /\ ~Shadowed(i))
    => (result.ok /\ result.val = origin.data)

\* C7 happens: the token of the old engine of a ring [new, old] came back
\* through the ring after the new engine had refused it.
C7_Witness ==
    /\ RingDecryptNoTtl
    /\ Len(fernets) = 2 /\ IssuerAt(origin, 2) /\ ~Shadowed(2)
    /\ origin.data = Hello
    /\ result.ok /\ result.val = Hello /\ result.tried = 2

RingEncrypted == result.op = "multi_encrypt_at_time" /\ result.ok

\* C8 as stated: the ring's token is decrypted by the first engine, and every
\* engine built from another master key rejects it.
C8_OnlyNewestMasterKey ==
    RingEncrypted =>
        /\ decrypt(fernets[1], result.val, None, None) = Ok(origin.data)
        /\ \A k \in KeyNames :
               MasterKey(k) # MasterKey(NameOf(fernets[1]))
               => ~decrypt(engines[k], result.val, None, None).ok

\* C8: the ring encrypts with its first engine, however many engines it
\* holds: the first engine decrypts the token to the payload, and every
\* engine whose signing key is not the first engine's rejects it with
\* InvalidToken.
C8_NewestKeyOnly ==
    RingEncrypted =>
        /\ decrypt(fernets[1], result.val, None, None) = Ok(origin.data)
        /\ \A k \in KeyNames :
               engines[k].signing_key # fernets[1].signing_key
               => decrypt(engines[k], result.val, None, None) = InvalidToken

\* C8 happens: a ring of two engines encrypted a payload, and its second
\* engine, of another signing key, rejects the token.
C8_Witness ==
    /\ RingEncrypted /\ Len(fernets) = 2 /\ origin.data = Hello
    /\ fernets[2].signing_key # fernets[1].signing_key
    /\ decrypt(fernets[1], result.val, None, None) = Ok(Hello)
    /\ decrypt(fernets[2], result.val, None, None) = InvalidToken

\* Some engine of the ring decrypts the token that was given to rotate.
Decryptable ==
    \E i \in 1..Len(fernets) : decrypt(fernets[i], result.prev.token, None, None).ok

\* C9: rotation preserves time.  Whenever rotate is given a token that some
\* engine of the ring decrypts, it returns a token whose timestamp, as the
\* first engine extracts it, is the timestamp embedded in the token given.
C9_RotatePreservesTime ==
    (result.op = "rotate" /\ Decryptable)
    => /\ result.ok
       /\ extract_timestamp(fernets[1], result.val)
              = Ok(get_unverified_token_data(result.prev.token).timestamp)
       /\ get_unverified_token_data(result.prev.token).timestamp
              = result.prev.origin.time

\* C9 happens: a token of the second engine stamped 2^64 - 1 was rotated and
\* still carries 2^64 - 1.
C9_Witness ==
    /\ result.op = "rotate" /\ result.ok /\ result.tried = 2
    /\ result.prev.origin.time = MaxU64
    /\ result.val # result.prev.token
    /\ extract_timestamp(fernets[1], result.val) = Ok(MaxU64)

\* C10 as stated: whichever engine of the ring decrypts the token to a
\* plaintext, the first engine decrypts the rotated token to that plaintext.
C10_RotateAnyEnginePlaintext ==
    result.op = "rotate" =>
        \A i \in 1..Len(fernets) :
            LET d == decrypt(fernets[i], result.prev.token, None, None)
            IN  d.ok => /\ result.ok
                        /\ decrypt(fernets[1], result.val, None, None) = Ok(d.val)

\* C10: rotate re-encrypts under the first engine.  Given a token that some
\* engine of the ring decrypts, rotate returns a token that the first engine
\* decrypts to the plaintext of the first engine of the ring that accepts the
\* token given; that is the payload of the token when no engine before its
\* issuer has the issuer's signing key with another encryption key.
C10_RotateUnderFirst ==
    (result.op = "rotate" /\ Decryptable) =>
        LET j == CHOOSE i \in 1..Len(fernets) :
                     /\ decrypt(fernets[i], result.prev.token, None, None).ok
                     /\ \A h \in 1..(i - 1) :
                            ~decrypt(fernets[h], result.prev.token, None, None).ok
            P == decrypt(fernets[j], result.prev.token, None, None).val
        IN  /\ result.ok
            /\ decrypt(fernets[1], result.val, None, None) = Ok(P)
            /\ (\E i \in 1..Len(fernets) :
                    IssuerAt(result.prev.origin, i) /\ ~Shadowed(i))
               => P = result.prev.origin.data

\* C10 happens: a token of the second engine was rotated, and the first
\* engine, which refused the old token, decrypts the new one to the payload.
C10_Witness ==
    /\ result.op = "rotate" /\ result.ok /\ result.tried = 2
    /\ result.prev.origin.data = Hello
    /\ ~decrypt(fernets[1], result.prev.token, None, None).ok
    /\ decrypt(fernets[1], result.val, None, None) = Ok(Hello)

\* C11: rotate checks no ttl and no clock skew.  Whenever some engine of the
\* ring verifies and decrypts, with no ttl, the token given to rotate, rotate
\* succeeds and stops at that engine or before it, however old the token is
\* and however far ahead of any clock its timestamp lies.
C11_RotateNoTimeChecks ==
    result.op = "rotate" =>
        \A i \in 1..Len(fernets) :
            decrypt(fernets[i], result.prev.token, None, None).ok
            => (result.ok /\ result.tried <= i)

\* C11 happens: a token stamped 2^64 - 1, which the ring refuses at time 1005
\* under a ttl of 10 for lying in the future, was rotated.
C11_Witness ==
    /\ result.op = "rotate" /\ result.ok
    /\ result.prev.origin.time = MaxU64
    /\ Multi_decrypt_at_time(fernets, result.prev.token, Num(10), Num(1005))
           = Tried(InvalidToken, Len(fernets))

\* C12: rotate fails as decrypt does.  When no engine of the ring verifies
\* and decrypts the token, rotate fails with InvalidToken, as decrypt does,
\* and the caller is left with the token it had; a token that rotate returns
\* comes from a token whose tag verified under the signing key of some
\* engine of the ring.
C12_RotateFailsAsDecrypt ==
    result.op = "rotate" =>
        /\ ~Decryptable =>
               /\ Rejected
               /\ Multi_decrypt(fernets, result.prev.token, None, None).err = result.err
               /\ token = result.prev.token
        /\ result.ok =>
               \E i \in 1..Len(fernets) :
                   verify_signature(fernets[i], Decoded(result.prev.token))

\* C12 happens: the ring was given a token of an engine that it does not
\* hold, and rotate failed.
C12_Witness ==
    /\ result.op = "rotate"
    /\ result.prev.origin.by \in KeyNames
    /\ \A i \in 1..Len(fernets) : fernets[i] # engines[result.prev.origin.by]
    /\ ~Decryptable
    /\ Rejected /\ token = result.prev.token

\* The token that the call in result was given.
Given == IF result.op = "rotate" THEN result.prev.token ELSE token

\* The call in result is one that takes a token, and was given all that it
\* needs beside it.
TokenCall ==
    \/ result.op \in {"decrypt", "extract_timestamp", "rotate"}
    \/ result.op = "decrypt_at_time" /\ result.ttl # None

\* C13: one opaque error.  Whatever bytes the token holds, decrypt,
\* decrypt_at_time, extract_timestamp and rotate either succeed or fail with
\* InvalidToken and nothing else: no other error leaves them.
C13_SingleOpaqueError ==
    (TokenCall /\ ~result.ok) => Rejected

\* C13 happens: a token with a valid tag whose ciphertext is not whole blocks
\* was given to decrypt, and InvalidToken came back.
C13_Witness ==
    /\ result.op = "decrypt" /\ ~TagMismatch(result.who, token)
    /\ Len(Decoded(token)) > 57
    /\ (Len(Decoded(token)) - 57) % BlockSize # 0
    /\ Rejected

\* The least a well-formed token decodes to: version, timestamp, IV and tag.
TooShort(tok) ==
    \/ ~urlsafe_b64decode(tok).ok
    \/ Len(Decoded(tok)) < 1 + TsLen + BlockSize + TagLen

\* C14: minimum length.  decrypt and decrypt_at_time fail, and return no
\* plaintext, on every token that does not decode or decodes to fewer than
\* 57 bytes, whatever the key, the ttl and the time.
C14_MinimumLength ==
    (result.op \in {"decrypt", "decrypt_at_time"} /\ TooShort(token))
    => (~result.ok /\ result.val = <<>>)

\* C14 happens: 41 bytes, a version byte and a timestamp and their valid tag,
\* were refused by decrypt.
C14_Witness ==
    /\ result.op = "decrypt" /\ urlsafe_b64decode(token).ok
    /\ Len(Decoded(token)) = 1 + TsLen + TagLen
    /\ Decoded(token)[1] = 128
    /\ ~TagMismatch(result.who, token)
    /\ Rejected

\* The token is one that the parsing or the tag check of decrypt refuses.
ParseOrTagFails(k, tok) ==
    \/ TooShort(tok)
    \/ Decoded(tok)[1] # 128
    \/ TagMismatch(k, tok)

\* C15: extract_timestamp fails where the parsing and the tag check of
\* decrypt fail.  On every token that does not decode, decodes to fewer than
\* 57 bytes, does not start with 0x80 or carries a wrong tag,
\* extract_timestamp fails and returns no timestamp.
C15_ExtractFailsAsDecode ==
    (result.op = "extract_timestamp" /\ ParseOrTagFails(result.who, token))
    => ~result.ok

\* The part of C15 that the code keeps: extract_timestamp fails on every
\* token that does not decode, does not start with 0x80 or carries a wrong
\* tag.
C15_ExtractFailsUnlessVerified ==
    (result.op = "extract_timestamp"
        /\ \/ ~urlsafe_b64decode(token).ok
           \/ Len(Decoded(token)) = 0
           \/ Decoded(token)[1] # 128
           \/ TagMismatch(result.who, token))
    => Rejected

\* C16: extract_timestamp returns the timestamp of a token exactly when the
\* token decodes, starts with 0x80 and carries the right tag under the
\* engine's signing key, and then it returns bytes 1..8 of the token read
\* big-endian: no clock is read, and nothing is decrypted.
C16_ExtractTimestamp ==
    result.op = "extract_timestamp" =>
        /\ result.ok <=> /\ urlsafe_b64decode(token).ok
                         /\ Len(Decoded(token)) > 0
                         /\ Decoded(token)[1] = 128
                         /\ ~TagMismatch(result.who, token)
        /\ result.ok => result.val = NumFromBytes(Slice(Decoded(token), 1, 9))

\* C16 happens: the timestamp 1000 was extracted from a token whose
\* ciphertext is not whole blocks and which the same engine does not decrypt.
C16_Witness ==
    /\ result.op = "extract_timestamp" /\ result.ok /\ result.val = Num(1000)
    /\ (Len(Decoded(token)) - 57) % BlockSize # 0
    /\ decrypt(engines[result.who], token, None, None) = InvalidToken

\* The token decodes to nothing or to bytes that do not start with 0x80.
BadVersion(tok) ==
    /\ urlsafe_b64decode(tok).ok
    /\ (Len(Decoded(tok)) = 0 \/ Decoded(tok)[1] # 128)

\* C17: version check.  A token that does not start with 0x80 is rejected
\* by decrypt, decrypt_at_time, extract_timestamp and rotate, whatever its
\* tag, and by rotate before any engine of the ring is tried.
C17_VersionCheck ==
    (TokenCall /\ BadVersion(Given)) =>
        /\ Rejected
        /\ result.op = "rotate" => result.tried = 0

\* C17 happens: rotate refused, without trying an engine, a token under
\* version byte 0x81 whose tag is valid for an engine of the ring.
C17_Witness ==
    /\ result.op = "rotate" /\ BadVersion(Given)
    /\ Decoded(Given)[1] = 129
    /\ \E i \in 1..Len(fernets) : verify_signature(fernets[i], Decoded(Given))
    /\ Rejected /\ result.tried = 0

\* C19: a missing ttl is a usage error.  decrypt_at_time without a ttl
\* raises ValueError, not InvalidToken, whatever the token is, also one that
\* does not parse; on a ring the error is that of the first engine, and the
\* ring's loop lets it through.
C19_MissingTtl ==
    (result.op \in {"decrypt_at_time", "multi_decrypt_at_time"} /\ result.ttl = None)
    => /\ ~result.ok /\ result.err = "ValueError" /\ result.val = <<>>
       /\ result.op = "multi_decrypt_at_time" => result.tried = 1

\* C19 happens: a ring of two engines, asked without a ttl about a token
\* that does not even decode, raised ValueError from its first engine.
C19_Witness ==
    /\ result.op = "multi_decrypt_at_time" /\ result.ttl = None
    /\ Len(fernets) = 2
    /\ ~urlsafe_b64decode(token).ok
    /\ result.err = "ValueError" /\ result.tried = 1

\* C20: no empty ring.  MultiFernet of an empty list raises ValueError and
\* leaves no ring, a non-empty list gives the ring of its engines; so the
\* ring always holds a first engine, and the ring's encrypt_at_time returns
\* a token of that engine.
C20_NoEmptyRing ==
    /\ Len(fernets) >= 1
    /\ result.op = "multi_init" =>
           IF result.who = <<>>
           THEN ~result.ok /\ result.err = "ValueError" /\ result.val = <<>>
           ELSE /\ result.ok /\ result.val = fernets
                /\ fernets = [i \in DOMAIN result.who |-> engines[result.who[i]]]
    /\ result.op = "multi_encrypt_at_time" =>
           /\ result.ok
           /\ decrypt(fernets[1], result.val, None, None) = Ok(origin.data)

\* C20 happens: MultiFernet([]) raised ValueError, and the caller still
\* holds the ring of one engine that it had built before.
C20_Witness ==
    /\ result.op = "multi_init" /\ result.who = <<>>
    /\ result.err = "ValueError"
    /\ Len(fernets) = 1

\* C18: the order of the checks.  In decrypt_at_time on a token that parses,
\* the expiry comparison comes first and the clock-skew comparison second,
\* both on the timestamp as it stands in the token; a token that fails one
\* of them is rejected there, with no tag computed and nothing decrypted; a
\* token that passes both has its tag verified next, and is decrypted only
\* when the tag is right.
C18_CheckOrder ==
    (result.op = "decrypt_at_time" /\ result.ttl # None
        /\ get_unverified_token_data(token).ok)
    => LET timestamp == get_unverified_token_data(token).timestamp
           expired == NumLess(NumAdd(timestamp, result.ttl), result.now)
           ahead == NumLess(NumAdd(result.now, Num(60)), timestamp)
       IN  /\ expired => (result.steps = <<"expiry">> /\ Rejected)
           /\ (~expired /\ ahead) => (result.steps = <<"expiry", "skew">> /\ Rejected)
           /\ (~expired /\ ~ahead) =>
                  /\ Len(result.steps) >= 3
                  /\ SubSeq(result.steps, 1, 3) = <<"expiry", "skew", "verify">>
                  /\ TagMismatch(result.who, token)
                         => (Len(result.steps) = 3 /\ Rejected)
           /\ result.ok =>
                  result.steps = <<"expiry", "skew", "verify", "decryptor", "unpadder">>

\* C18 happens: an expired token with a wrong tag was rejected at the expiry
\* comparison.
C18_Witness ==
    /\ result.op = "decrypt_at_time" /\ result.ttl = Num(10) /\ result.now = Num(1011)
    /\ get_unverified_token_data(token).timestamp = Num(1000)
    /\ Len(Decoded(token)) > 57
    /\ TagMismatch(result.who, token)
    /\ result.steps = <<"expiry">> /\ Rejected

\* C21: a key of the wrong length is refused.  Fernet(key) with a key that
\* decodes to other than 32 bytes raises ValueError and leaves the caller
\* without a new engine; with a key that decodes to 32 bytes, as those of
\* generate_key do, it returns an engine.
C21_BadKeyLength ==
    result.op = "init" =>
        /\ urlsafe_b64decode(result.key).ok =>
               IF Len(Decoded(result.key)) = KeyLen
               THEN result.ok /\ engines[result.who] = result.val
               ELSE ~result.ok /\ result.err = "ValueError" /\ result.val = <<>>
        /\ ~urlsafe_b64decode(result.key).ok => ~result.ok
        /\ \A random \in Randoms : Fernet_init(generate_key(random)).ok

\* C21 happens: a key of 33 bytes was refused with ValueError, and the
\* caller still holds the engine built from a generated key before.
C21_Witness ==
    /\ result.op = "init" /\ Len(Decoded(result.key)) = KeyLen + 1
    /\ result.err = "ValueError"
    /\ \E random \in Randoms :
           engines[result.who] = Fernet_init(generate_key(random)).val

\* The length of the ciphertext of a payload of n bytes.
CiphertextLen(n) == BlockSize * ((n \div BlockSize) + 1)

\* C22: the wire format.  Every token that encrypt_at_time, the ring's
\* encrypt_at_time and rotate hand out is the base64url text, and the only
\* one, of 0x80, the 8 bytes of the timestamp most significant first, the 16
\* bytes of the IV, a ciphertext of 16 * (len(P) div 16 + 1) bytes and the
\* 32 bytes of the MAC of all that goes before under the issuer's signing
\* key; so it decodes to 73 bytes at least.
C22_WireFormat ==
    token # <<>> =>
        /\ urlsafe_b64decode(token).ok
        /\ token = urlsafe_b64encode(Decoded(token))
        /\ Len(Decoded(token)) >= 73
        /\ Len(Decoded(token)) =
               1 + TsLen + BlockSize + CiphertextLen(Len(origin.data)) + TagLen
        /\ (Len(Decoded(token)) - 57) % BlockSize = 0
        /\ Decoded(token)[1] = 128
        /\ Slice(Decoded(token), 1, 9) = pack_Q(origin.time).val
        /\ Slice(Decoded(token), 9, 25) = origin.iv
        /\ TakeLast(Decoded(token), TagLen) =
               HMAC_SHA256(engines[origin.by].signing_key,
                           DropLast(Decoded(token), TagLen))
        /\ (result.ok /\ result.op \in {"encrypt_at_time", "multi_encrypt_at_time",
                                          "rotate"})
               => result.val = token

\* C22 happens: rotate handed out the token of a payload of 16 bytes, which
\* decodes to 89 bytes, two blocks of ciphertext among them.
C22_Witness ==
    /\ result.op = "rotate" /\ result.ok
    /\ Len(origin.data) = BlockSize
    /\ Len(Decoded(token)) = 89
    /\ token # result.prev.token

\* C23: nothing changes after construction.  No call of encrypt_at_time,
\* decrypt, decrypt_at_time, extract_timestamp or rotate, whether it returns
\* or raises, changes the signing key or the encryption key of an engine, or
\* the engines of the ring or their order; and no change that the caller
\* makes to the list the ring was built from changes the ring, which keeps a
\* list of its own.
C23_Immutable ==
    [][/\ engines' = engines
       /\ fernets' = fernets
       /\ lists'.ring_id = lists.ring_id
       /\ lists.ring_id # lists.given.id]_vars

\* C23 happens: the caller has changed the list, the ring still holds the
\* engines B and A that it was built from, and has rotated a token of A
\* into one of B.
C23_Witness ==
    /\ lists.given.items # fernets
    /\ fernets = <<engines["B"], engines["A"]>>
    /\ result.op = "rotate" /\ result.ok
    /\ result.prev.origin.by = "A" /\ origin.by = "B"

\* What the call of thread t returns or raises when no other call is under
\* way.
Alone(t) ==
    IF threads[t].op = "encrypt_at_time"
    THEN encrypt_at_time(engines[threads[t].who], threads[t].arg, threads[t].time,
                         threads[t].iv)
    ELSE IF threads[t].op = "decrypt"
    THEN decrypt(engines[threads[t].who], threads[t].arg, None, None)
    ELSE IF threads[t].op = "extract_timestamp"
    THEN extract_timestamp(engines[threads[t].who], threads[t].arg)
    ELSE rotate(fernets, threads[t].arg, threads[t].iv)

\* C24: callers need no coordination.  Whatever the order in which the
\* statements of two calls on the same engines and the same ring follow one
\* another, each call of encrypt_at_time, decrypt, extract_timestamp and
\* rotate returns or raises what it does when it runs alone on the same
\* arguments and IV.
C24_Concurrent ==
    \A t \in Threads :
        threads[t].pc = "done" =>
            /\ threads[t].out.ok = Alone(t).ok
            /\ threads[t].out.err = Alone(t).err
            /\ threads[t].out.val = Alone(t).val

\* C24 happens: the first thread has rotated a token of A while the second
\* one, in encrypt_at_time on the ring's first engine, had its own HMAC
\* context open with other bytes in it.
C24_Witness ==
    /\ threads[1].pc = "done" /\ threads[1].op = "rotate" /\ threads[1].out.ok
    /\ threads[1].i = 2
    /\ threads[2].pc = "hmac_finalize" /\ threads[2].who = "B"
    /\ hmacs[1].buf # <<>> /\ hmacs[2].buf # <<>>
    /\ hmacs[1].buf # hmacs[2].buf

\* The statements of _decrypt_data that the call in result ran.
Ran(step) == \E j \in 1..Len(result.steps) : result.steps[j] = step

\* C25: no ttl, no time checks.  decrypt without a ttl runs neither the
\* expiry comparison nor the clock-skew comparison: a token with the right
\* tag and a ciphertext that unpads is accepted whenever it was stamped, at
\* time 0 or at 2^64 - 1 as at any other, and a token of the engine comes
\* back as its payload.
C25_NoTtlNoTimeChecks ==
    (result.op = "decrypt" /\ result.ttl = None)
    => /\ ~Ran("expiry") /\ ~Ran("skew")
       /\ (/\ get_unverified_token_data(token).ok
           /\ ~TagMismatch(result.who, token)
           /\ decrypt_verified(engines[result.who], Decoded(token)).ok)
          => (result.ok /\ Ran("unpadder"))
       /\ (flips = 0 /\ result.who = origin.by)
          => (Accepted /\ origin.time \in Times)

\* C25 happens: a token stamped 0 was accepted without a ttl, the tag check
\* being the first statement run.
C25_Witness ==
    /\ result.op = "decrypt" /\ result.ttl = None
    /\ origin.time = Num(0) /\ origin.data = Hello
    /\ Accepted
    /\ result.steps = <<"verify", "decryptor", "unpadder">>

\* The ciphertext field of a token of 57 bytes or more.
CiphertextOf(tok) == Slice(DropLast(Decoded(tok), TagLen), 25, Len(Decoded(tok)))

\* The token parses and carries the right tag for engine k, but its
\* ciphertext is empty, is not whole blocks, or decrypts under k's key to
\* bytes that do not end in a padding.
BadCiphertext(k, tok) ==
    /\ get_unverified_token_data(tok).ok
    /\ Len(Decoded(tok)) >= 57
    /\ ~TagMismatch(k, tok)
    /\ \/ Len(CiphertextOf(tok)) = 0
       \/ Len(CiphertextOf(tok)) % BlockSize # 0
       \/ ~PKCS7_unpad(CBC_decrypt(engines[k].encryption_key,
                                   Slice(Decoded(tok), 9, 25),
                                   CiphertextOf(tok)).val).ok

\* C26: a bad ciphertext looks like a bad tag.  decrypt and decrypt_at_time
\* on a token with the right tag and a ciphertext that is empty, is not
\* whole blocks or does not unpad raise InvalidToken and return no byte of
\* plaintext, which is all that they do on a token with a wrong tag.
C26_PaddingLikeSignature ==
    (/\ result.op \in {"decrypt", "decrypt_at_time"}
     /\ result.op = "decrypt_at_time" => result.ttl # None
     /\ get_unverified_token_data(token).ok
     /\ BadCiphertext(result.who, token) \/ TagMismatch(result.who, token))
    => (~result.ok /\ result.err = InvalidToken.err /\ result.val = InvalidToken.val)

\* C26 happens: a token in time, with the right tag and one whole block of
\* ciphertext that does not unpad, was refused with InvalidToken at the
\* unpadder.
C26_Witness ==
    /\ result.op = "decrypt_at_time" /\ result.ttl = Num(10) /\ result.now = Num(1005)
    /\ BadCiphertext(result.who, token)
    /\ Len(CiphertextOf(token)) = BlockSize
    /\ result.steps = <<"expiry", "skew", "verify", "decryptor", "unpadder">>
    /\ Rejected

\* n is an integer of [0, 2^64 - 1].
InU64(n) == n[1] < 128 /\ ~NumLess(MaxU64, n)

\* C27: the range of the timestamp.  encrypt_at_time, on an engine or on
\* the ring, at a time below 0 or above 2^64 - 1 raises struct.error and
\* hands out no token; so every token handed out, by rotate as well, carries
\* the time it was issued at, an integer of [0, 2^64 - 1], and rotate, which
\* packs a timestamp that it has unpacked, never fails there.
C27_TimestampRange ==
    /\ result.op \in {"encrypt_at_time", "multi_encrypt_at_time"} =>
           IF InU64(result.now)
           THEN result.ok /\ token = result.val /\ origin.time = result.now
           ELSE ~result.ok /\ result.err = "struct.error" /\ result.val = <<>>
    /\ token # <<>> =>
           /\ InU64(origin.time)
           /\ get_unverified_token_data(token).timestamp = origin.time
    /\ result.op = "rotate" =>
           /\ result.err # "struct.error"
           /\ result.ok => InU64(get_unverified_token_data(result.val).timestamp)

\* C27 happens: encrypt_at_time at 2^64 raised struct.error, and the caller
\* still holds the token stamped 2^64 - 1 that it had.
C27_Witness ==
    /\ result.op = "encrypt_at_time" /\ result.now = TwoTo64
    /\ result.err = "struct.error" /\ result.val = <<>>
    /\ token # <<>> /\ origin.time = MaxU64

\* Engine e has the two halves of engine f's key, each in the other's place.
SwappedHalves(e, f) ==
    /\ e.signing_key = f.encryption_key
    /\ e.encryption_key = f.signing_key
    /\ f.signing_key # f.encryption_key

\* An engine was given the token as its issuer left it.
Presented == result.op = "decrypt" /\ flips = 0 /\ origin.by \in KeyNames

\* What C28 has in common as stated and as amended: an engine built from
\* the key K signs with K[0:16] and encrypts with K[16:32], its tokens carry
\* the tag under the one and the ciphertext under the other, and an engine
\* built from K[16:32] + K[0:16] refuses them when the halves differ.
KeySplit ==
    /\ (result.op = "init" /\ result.ok) =>
           /\ result.val.signing_key = Slice(Decoded(result.key), 0, 16)
           /\ result.val.encryption_key = Slice(Decoded(result.key), 16, 32)
    /\ (token # <<>> /\ flips = 0 /\ origin.by \in KeyNames) =>
           /\ TakeLast(Decoded(token), TagLen) =
                  HMAC_SHA256(engines[origin.by].signing_key,
                              DropLast(Decoded(token), TagLen))
           /\ CiphertextOf(token) =
                  CBC_encrypt(engines[origin.by].encryption_key, origin.iv,
                              PKCS7_pad(origin.data))
    /\ (Presented /\ SwappedHalves(engines[result.who], engines[origin.by]))
           => Rejected

\* C28 as stated: key split, and both halves of an engine's key are needed
\* to make a token that the engine accepts: a token that it accepts was
\* made with its signing key and its encryption key.
C28_BothHalvesNeeded ==
    /\ KeySplit
    /\ (Presented /\ result.ok) => engines[origin.by] = engines[result.who]

\* C28: key split.  An engine built from the key K signs with K[0:16] and
\* encrypts with K[16:32], and the engine of the swapped key refuses its
\* tokens when the halves differ; the signing half is needed to make a
\* token that the engine accepts, and with the encryption half as well the
\* token comes back as its payload.
C28_KeySplit ==
    /\ KeySplit
    /\ (Presented /\ result.ok) =>
           /\ engines[origin.by].signing_key = engines[result.who].signing_key
           /\ engines[origin.by].encryption_key = engines[result.who].encryption_key
                  => result.val = origin.data

\* C28 happens: the engine built from A's key with its halves swapped
\* refused a token of A.
C28_Witness ==
    /\ Presented /\ result.who = "B" /\ origin.by = "A"
    /\ engines["A"] = Fernet_init(KeyText("A")).val
    /\ SwappedHalves(engines["B"], engines["A"])
    /\ Rejected

\* The ways to put n engines in another order.
Orders(n) == {p \in [1..n -> 1..n] : \A i, j \in 1..n : p[i] = p[j] => i = j}

\* What the call in result returns or raises on the ring of the same
\* engines in the order p, each place of the ring reading the clock as it
\* did.
Reordered(p) ==
    IF result.op = "multi_decrypt"
    THEN Multi_decrypt([i \in 1..Len(fernets) |-> fernets[p[i]]], token, result.ttl,
                       IF result.ttl = None THEN [i \in 1..Len(fernets) |-> None]
                       ELSE result.clocks)
    ELSE Multi_decrypt_at_time([i \in 1..Len(fernets) |-> fernets[p[i]]], token,
                               result.ttl, result.now)

\* The call in result answers the same in every order of the ring.
SameInAnyOrder ==
    \A p \in Orders(Len(fernets)) :
        /\ Reordered(p).ok = result.ok
        /\ Reordered(p).err = result.err
        /\ Reordered(p).val = result.val

\* The ring was asked about a token that one of its engines issued.
RingOwnToken ==
    RingCall /\ flips = 0 /\ \E i \in 1..Len(fernets) : IssuerAt(origin, i)

\* C29 as stated: on a ring of engines with different master keys, what
\* decrypt and decrypt_at_time answer about a token of one of the engines
\* is the same in every order of the ring.
C29_AnyOrderDifferentKeys ==
    (/\ RingOwnToken
     /\ \A i, j \in 1..Len(fernets) : fernets[i] = fernets[j] => i = j)
    => SameInAnyOrder

\* C29: the order of the ring.  On a ring of engines with different signing
\* keys, what decrypt_at_time, and decrypt without a ttl or with one clock
\* reading for all engines, answer about a token of one of the engines is
\* the same in every order of the ring: the payload, or InvalidToken.
C29_AnyOrder ==
    (/\ RingOwnToken
     /\ \A i, j \in 1..Len(fernets) :
            fernets[i].signing_key = fernets[j].signing_key => i = j
     /\ \A h, k \in 1..Len(result.clocks) : result.clocks[h] = result.clocks[k])
    => /\ SameInAnyOrder
       /\ (result.ok /\ result.val = origin.data) \/ Rejected

\* C29 happens: the ring [B, A] returned the payload of a token of A from
\* its second engine, as the ring [A, B] does from its first.
C29_Witness ==
    /\ RingOwnToken /\ result.op = "multi_decrypt_at_time"
    /\ Len(fernets) = 2
    /\ fernets[1].signing_key # fernets[2].signing_key
    /\ IssuerAt(origin, 2)
    /\ result.ok /\ result.val = origin.data /\ result.tried = 2
    /\ Reordered(<<2, 1>>).tried = 1

====
